---- MODULE Spec2Model ----
(***************************************************************************)
(* A model of the martech_pipelines bulk delivery pipeline:                *)
(*   - connection resolution with its lru_cache (connection.py),           *)
(*   - the hooks' retry policy around a delivery call (hooks/*.py),        *)
(*   - the Netcore adaptive batcher (hooks/netcore.py, utils/helpers.py),  *)
(*   - the per-record transformation chain of ClevertapProfileOperator     *)
(*     (operators/clevertap_user_profile.py, utils/data_sanity_helpers.py).*)
(* Each component has its own specification over the shared variables;     *)
(* the variables of the other components stay at their initial values.     *)
(***************************************************************************)
EXTENDS Integers, Sequences, FiniteSets, TLC

VARIABLES
    \* ---- connection.py
    ENV,            \* os.environ.get("ENV"): "prod", "preprod" or "unset"
    lru,            \* lru_cache of get_connection_from_secret_manager: entries, most recent last
    okFetches,      \* secret name -> secrets-store round trips that returned a bundle
    failFetches,    \* secret name -> secrets-store round trips that raised
    store,          \* what the secrets store holds: "bundles", "empty" or "null"
    lastRes,        \* outcome of the most recent resolution
    nCalls,         \* resolutions made so far
    \* ---- hooks: one delivery call under run_with_advanced_retry
    hook,           \* which hook built the retry arguments
    transport,      \* how the transport behaves during this call
    rpc,            \* position in the retry loop
    attempt_number, \* tenacity's attempt counter
    outcome,        \* outcome of the latest attempt
    delivered,      \* what the caller of the delivery call observes
    sleeps,         \* waits taken between attempts, in seconds
    nDeliveries,    \* delivery calls started so far
    \* ---- hooks/netcore.py __get_chunks and utils/helpers.py chunkify
    data,           \* the record list handed to __get_chunks
    bpc,            \* position in __get_chunks / in the returned generator
    bi,             \* the divisor i
    chunk,          \* the chunk last measured
    chunk_size,     \* chunk_size of the generator __get_chunks returned
    gpos,           \* the generator's loop index
    emitted,        \* the batches yielded so far, in order
    \* ---- operators/clevertap_user_profile.py, utils/data_sanity_helpers.py
    tz,             \* the local timezone, in seconds east of UTC
    op,             \* the operator's configuration (self.identity, self.data_type_map, ...)
    xin,            \* the record handed to the call, as it was before the call
    xpc,            \* "ready" before the call, "done" after it
    xcall,          \* the function called last
    xret,           \* what the call returned or raised
    xarg,           \* the caller's dict after the call
    TOTAL_RECORD_PROCESSED,
    TOTAL_RECORD_SEND,
    TOTAL_INVALID_RECORD,
    pd_chunk,       \* the chunk payload_generator took last
    payload,        \* the payload it yielded last
    nOps,           \* operator calls made so far
    \* ---- utils/data_sanity_helpers.py: one helper called on its own
    hcall,          \* the helper called last
    harg,           \* the arguments as the caller passed them
    hres,           \* what the call returned or raised
    hafter,         \* the caller's dict after the call
    \* ---- operators/clevertap_user_profile.py: one run of execute
    esrc,           \* the record source the operator was built with
    epc,            \* "new", "unbuilt" or "init" (built), then in execute "loop", "returned" or "raised"
    eitem,          \* what get_data_df yielded to payload_generator
    eexc,           \* the exception that left execute
    chunk_completed,\* execute: payloads delivered so far
    uploads,        \* the payloads handed to upload_user_profiles, in order
    \* ---- hooks/netcore.py: staging a batch to the object store
    now,            \* the clock: int(time.time() * 1000.0)
    count,          \* NetcoreHook.count
    bucket_name,    \* NetcoreHook.bucket_name, "None" until connection is read
    objects,        \* the object store: staged key -> the batch its content came from
    sres,           \* how the last upload_user_profiles ended
    nStaged,        \* calls of upload_user_profiles so far
    \* ---- operators/clevertap_user_profile.py: the constructor's arguments
    ctor,           \* the arguments ClevertapProfileOperator was called with
    \* ---- connection.py and the hooks: the objects the cache and the hooks hold
    cached,         \* cache key -> the bundle dict the cache entry holds
    held,           \* the Connection object a hook resolved last, as the hook left it
    \* ---- hooks/aws_s3.py S3Hook.delete_objects
    dkeys,          \* the keys argument of delete_objects (a str or a list)
    dbucket,        \* keys of the objects the bucket holds
    dchunks,        \* chunks the loop has not reached yet
    dreq,           \* delete requests sent so far, each the list of its keys
    dpc,            \* idle, loop, returned or raised
    derrors         \* errors_keys of the raised exception

connVars  == <<ENV, store, lru, okFetches, failFetches, lastRes, nCalls>>
retryVars == <<hook, transport, rpc, attempt_number, outcome, delivered, sleeps, nDeliveries>>
batchVars == <<data, bpc, bi, chunk, chunk_size, gpos, emitted>>
xfVars    == <<tz, op, xin, xpc, xcall, xret, xarg, TOTAL_RECORD_PROCESSED, TOTAL_RECORD_SEND,
               TOTAL_INVALID_RECORD, pd_chunk, payload, nOps>>
helperVars == <<hcall, harg, hres, hafter>>
execVars == <<esrc, epc, eitem, eexc, chunk_completed, uploads>>
stageVars == <<now, count, bucket_name, objects, sres, nStaged>>
ctorVars == <<ctor>>
heapVars == <<cached, held>>
delVars == <<dkeys, dbucket, dchunks, dreq, dpc, derrors>>
vars      == <<connVars, retryVars, batchVars, xfVars, helperVars, execVars, stageVars, ctorVars, heapVars, delVars>>

(***************************************************************************)
(* Bounds of the model.                                                    *)
(***************************************************************************)
MaxCalls == 4       \* connection resolutions per behaviour
MaxDeliveries == 2  \* delivery calls per behaviour
MaxRecords == 5     \* records in the list handed to the batcher
CsvHeaderBytes == 20 \* bytes of the CSV header line
MaxOps == 2         \* calls on one operator instance per behaviour
MaxChunk == 2       \* records in one chunk of the record source

(***************************************************************************)
(* connection.py, utils/config.py, hooks/aws_secret_manager.py             *)
(***************************************************************************)
NoArg == "None"                         \* the argument left at its default
SecretNames == {"martech", "martech_dev", "absent_secret"}
SecretArgs  == {NoArg} \cup SecretNames \* what a caller may pass as secret_name
ConnIds     == {"clevertap", "netcore", "ghost"}

LruMaxSize == 128   \* functools.lru_cache() default maxsize

\* utils/config.py get_env
get_env == IF ENV = "prod" THEN "prod" ELSE IF ENV = "preprod" THEN "preprod" ELSE "dev"

\* utils/config.py get_secret_name
get_secret_name == IF get_env = "prod" THEN "martech" ELSE "martech_dev"

ConnFields(h, l, p, x) == [host |-> h, login |-> l, password |-> p, extra |-> x]

\* The secrets store (external): the bundle stored under each secret name.
\* A name that is not stored makes get_secret_value raise.
StoredNames == {"martech", "martech_dev"}
SecretBundle(name) ==
    IF name = "martech"
    THEN [c \in {"clevertap", "netcore"} |->
            IF c = "clevertap" THEN ConnFields("api.ct", "acct", "pw1", "{}")
            ELSE ConnFields("api.nc", "none", "none", "{api_key}")]
    ELSE [c \in {"clevertap"} |-> ConnFields("dev.ct", "devacct", "pw2", "{}")]

\* What the store may hold under every stored name: the bundles above, the
\* JSON document {} or the JSON document null
Stores == {"bundles", "empty", "null"}
\* get_secret_as_dict(secret_name): json.loads of the stored document
get_secret_as_dict(name) ==
    [isnone |-> store = "null",
     conns |-> IF store = "bundles" THEN SecretBundle(name) ELSE <<>>]

\* The name the body of get_connection_from_secret_manager fetches for an argument:
\* secret_name = secret_name or get_secret_name()
ResolvedName(arg) == IF arg = NoArg THEN get_secret_name ELSE arg

\* The key lru_cache files a call under: the call's arguments as passed.
CacheKey(arg) == arg

LruKeys == {lru[i].key : i \in 1..Len(lru)}
LruIndex(k) == CHOOSE i \in 1..Len(lru) : lru[i].key = k
RemoveAt(s, i) == SubSeq(s, 1, i - 1) \o SubSeq(s, i + 1, Len(s))
LruTouch(k) == RemoveAt(lru, LruIndex(k)) \o <<lru[LruIndex(k)]>>
LruInsert(k, cfg) ==
    LET grown == Append(lru, [key |-> k, name |-> cfg])
    IN IF Len(grown) > LruMaxSize THEN Tail(grown) ELSE grown

\* One call of the lru_cache-wrapped get_connection_from_secret_manager(arg).
\* Yields the new cache, the new counters and the value returned (or the raise).
CachedCall(arg) ==
    LET k == CacheKey(arg)
        name == ResolvedName(arg)
    IN IF k \in LruKeys
       THEN [lru |-> LruTouch(k), ok |-> okFetches, fail |-> failFetches,
             raised |-> FALSE, name |-> lru[LruIndex(k)].name, hit |-> TRUE]
       ELSE IF name \in StoredNames
            THEN [lru |-> LruInsert(k, name), ok |-> [okFetches EXCEPT ![name] = @ + 1],
                  fail |-> failFetches, raised |-> FALSE, name |-> name, hit |-> FALSE]
            ELSE [lru |-> lru, ok |-> okFetches,
                  fail |-> [failFetches EXCEPT ![name] = @ + 1],
                  raised |-> TRUE, name |-> name, hit |-> FALSE]

NoConn == ConnFields("", "", "", "")
Res(kind, arg, hit, name, conn) ==
    [kind |-> kind, arg |-> arg, hit |-> hit, name |-> name, conn |-> conn,
     conn_id |-> "", msg |-> <<>>]

\* the bundle a call hands back: the dict the cache entry holds on a hit, the
\* dict json.loads built on a miss
CachedValue(c, k) == IF c.hit THEN cached[k] ELSE get_secret_as_dict(c.name)
CacheStore(c, k, cfg) ==
    IF c.raised THEN cached
    ELSE [x \in DOMAIN cached \cup {k} |-> IF x = k THEN cfg ELSE cached[x]]

\* get_connection_from_secret_manager(secret_name) called directly
GetConnectionFromSecretManager(arg) ==
    /\ nCalls < MaxCalls
    /\ LET c == CachedCall(arg)
       IN /\ lru' = c.lru
          /\ okFetches' = c.ok
          /\ failFetches' = c.fail
          /\ cached' = CacheStore(c, CacheKey(arg), CachedValue(c, CacheKey(arg)))
          /\ lastRes' = Res(IF c.raised THEN "FetchError" ELSE "bundle",
                            arg, c.hit, c.name, NoConn)
    /\ nCalls' = nCalls + 1
    /\ UNCHANGED <<ENV, store, held, retryVars, batchVars, xfVars, helperVars, execVars, stageVars, ctorVars, delVars>>

\* raise Exception(f"Connection Not found : {conn_id}")
NotFound(r, conn_id) ==
    [r EXCEPT !.kind = "NotFound", !.conn_id = conn_id,
              !.msg = <<"Connection Not found : ", conn_id>>]
\* a Connection from cfg.get(conn_id, {}), with no not-found check
ResolveIdLenient(cfg, conn_id, r) ==
    [r EXCEPT !.kind = "Connection", !.conn_id = conn_id,
              !.conn = IF ~cfg.isnone /\ conn_id \in DOMAIN cfg.conns
                       THEN cfg.conns[conn_id] ELSE NoConn]
\* if cfg is None or cfg.get(conn_id) is None: raise ...; else a Connection
\* from the keyword arguments cfg[conn_id]
ResolveId(cfg, conn_id, r) ==
    IF cfg.isnone \/ conn_id \notin DOMAIN cfg.conns THEN NotFound(r, conn_id)
    ELSE [r EXCEPT !.kind = "Connection", !.conn_id = conn_id, !.conn = cfg.conns[conn_id]]

NoHeld == [by |-> "none", conn_id |-> "", conn |-> NoConn, at |-> 0]
\* What the holder assigns on the Connection object it received:
\* GamoogaHook.connection sets login and password to None,
\* NetcoreHook.connection sets extra to "{}", AwsBaseHook._get_credentials
\* and a plain caller only read
HookSets(by, conn) ==
    IF by = "GamoogaHook" THEN [conn EXCEPT !.login = "None", !.password = "None"]
    ELSE IF by = "NetcoreHook" THEN [conn EXCEPT !.extra = "{}"]
    ELSE conn
\* the cached dict if the Connection handed out were the cached entry itself
CachedAfterSetShared(cfg, conn_id, obj) == [cfg EXCEPT !.conns[conn_id] = obj]
\* The cached dict after the holder's assignments: get_connection builds a new
\* Connection from the entry's fields, so assignments on it stay on it
CachedAfterSet(cfg, conn_id, obj) == cfg

Holding(r, by, conn_id) ==
    IF r.kind = "Connection" /\ by # "caller"
    THEN [by |-> by, conn_id |-> conn_id, conn |-> HookSets(by, r.conn), at |-> nCalls + 1]
    ELSE held
ResolveEffect(c, cfg, r, by, conn_id) ==
    /\ lru' = c.lru
    /\ okFetches' = c.ok
    /\ failFetches' = c.fail
    /\ lastRes' = r
    /\ held' = Holding(r, by, conn_id)
    /\ cached' = CacheStore(c, CacheKey(NoArg),
                            IF r.kind = "Connection"
                            THEN CachedAfterSet(cfg, conn_id, HookSets(by, r.conn))
                            ELSE cfg)
    /\ nCalls' = nCalls + 1
    /\ UNCHANGED <<ENV, store, retryVars, batchVars, xfVars, helperVars, execVars, stageVars, ctorVars, delVars>>
ResolveOn(c, cfg, by, conn_id) ==
    ResolveEffect(c, cfg,
                  IF c.raised THEN Res("FetchError", NoArg, c.hit, c.name, NoConn)
                  ELSE ResolveId(cfg, conn_id, Res("bundle", NoArg, c.hit, c.name, NoConn)),
                  by, conn_id)
ResolveBy(c, by, conn_id) == ResolveOn(c, CachedValue(c, CacheKey(NoArg)), by, conn_id)

\* Connection.get_connection(conn_id)
GetConnection(conn_id) == nCalls < MaxCalls /\ ResolveBy(CachedCall(NoArg), "caller", conn_id)
\* GamoogaHook(conn_id): first_call = self.connection
GamoogaHookConnection(conn_id) ==
    nCalls < MaxCalls /\ ResolveBy(CachedCall(NoArg), "GamoogaHook", conn_id)
\* NetcoreHook(conn_id).connection
NetcoreHookConnection(conn_id) ==
    nCalls < MaxCalls /\ ResolveBy(CachedCall(NoArg), "NetcoreHook", conn_id)
\* AwsBaseHook(aws_conn_id)._get_credentials(region_name)
AwsGetCredentials(conn_id) ==
    nCalls < MaxCalls /\ ResolveBy(CachedCall(NoArg), "AwsBaseHook", conn_id)

NextConn ==
    \/ \E arg \in SecretArgs : GetConnectionFromSecretManager(arg)
    \/ \E conn_id \in ConnIds : GetConnection(conn_id)
    \/ \E conn_id \in ConnIds : GamoogaHookConnection(conn_id)
    \/ \E conn_id \in ConnIds : NetcoreHookConnection(conn_id)
    \/ \E conn_id \in ConnIds : AwsGetCredentials(conn_id)

(***************************************************************************)
(* hooks/clevertap.py, hooks/gamooga.py, hooks/netcore.py: the default     *)
(* retry arguments, and the retry loop they are handed to.                 *)
(***************************************************************************)
Hooks == {"ClevertapHook", "GamoogaHook", "NetcoreHook"}
Transports == {"always_transient", "always_fatal", "flaky"}
\* What one attempt of the HTTP call can end in: a response, a transient
\* connection failure, or an error that is no connection failure.
Outcomes == {"response", "ConnectionError", "InvalidRequest"}

\* stop=tenacity.stop_after_attempt(3)
stop_after_attempt_early(n) == n >= 2
stop_after_attempt(n) == n >= 3

\* retry=tenacity.retry_if_exception(requests.exceptions.ConnectionError):
\* retry_if_exception takes a predicate and calls it on the raised exception.
\* What it is given is the exception class, so the call constructs a
\* ConnectionError instance around the raised exception, and an exception
\* instance is truthy whatever it wraps.
retry_if_exception(e) == TRUE

\* wait=tenacity.wait_exponential(): multiplier 1, base 2, no minimum
wait_exponential(n) == 2 ^ (n - 1)

\* The outcomes the transport can produce on an attempt
TransportOutcomes(t) ==
    IF t = "always_transient" THEN {"ConnectionError"}
    ELSE IF t = "always_fatal" THEN {"InvalidRequest"}
    ELSE Outcomes

NoDelivery == [kind |-> "none", exc |-> "none"]

\* upload_user_profiles / upload_events / delete_user_profile hand the request
\* to run_with_advanced_retry with the hook's retry arguments
BeginDelivery ==
    /\ rpc \in {"idle", "done"}
    /\ nDeliveries < MaxDeliveries
    /\ transport' \in Transports
    /\ rpc' = "attempt"
    /\ attempt_number' = 1
    /\ outcome' = "none"
    /\ delivered' = NoDelivery
    /\ sleeps' = <<>>
    /\ nDeliveries' = nDeliveries + 1
    /\ UNCHANGED <<hook, connVars, batchVars, xfVars, helperVars, execVars, stageVars, ctorVars, heapVars, delVars>>

\* One attempt, and the retry decision taken on its outcome
Attempt ==
    /\ rpc = "attempt"
    /\ \E o \in TransportOutcomes(transport) :
         /\ outcome' = o
         /\ IF o = "response"
            THEN /\ delivered' = [kind |-> "response", exc |-> "none"]
                 /\ rpc' = "done"
            ELSE IF ~retry_if_exception(o)
            THEN /\ delivered' = [kind |-> "error", exc |-> o]
                 /\ rpc' = "done"
            ELSE IF stop_after_attempt(attempt_number)
            THEN /\ delivered' = [kind |-> "error", exc |-> o]
                 /\ rpc' = "done"
            ELSE /\ delivered' = delivered
                 /\ rpc' = "wait"
    /\ UNCHANGED <<hook, transport, attempt_number, sleeps, nDeliveries, connVars, batchVars, xfVars, helperVars, execVars, stageVars, ctorVars, heapVars, delVars>>

\* The wait before the next attempt
Backoff ==
    /\ rpc = "wait"
    /\ sleeps' = Append(sleeps, wait_exponential(attempt_number))
    /\ attempt_number' = attempt_number + 1
    /\ rpc' = "attempt"
    /\ UNCHANGED <<hook, transport, outcome, delivered, nDeliveries, connVars, batchVars, xfVars, helperVars, execVars, stageVars, ctorVars, heapVars, delVars>>

NextRetry ==
    \/ BeginDelivery
    \/ Attempt
    \/ Backoff

(***************************************************************************)
(* hooks/netcore.py __get_chunks, __df_file_size; utils/helpers.py chunkify *)
(***************************************************************************)
\* Serialized sizes a record's CSV line can have, in bytes
RecordSizes == {1000000, 2000000, 5000000}
\* A record is known by its position in the source list and its CSV line size
Rec(k, s) == [id |-> k, sz |-> s]
DataLists ==
    UNION {{[k \in 1..n |-> Rec(k, f[k])] : f \in [1..n -> RecordSizes]} : n \in 0..MaxRecords}

RECURSIVE SumSz(_)
SumSz(rows) == IF rows = <<>> THEN 0 ELSE Head(rows).sz + SumSz(Tail(rows))

\* __df_file_size: the bytes of the CSV file written for the rows (header line and
\* one line per row)
df_file_size(rows) == CsvHeaderBytes + SumSz(rows)

\* while self.__df_file_size(chunk) > 4500000
SizeCeiling == 4500000
ExceedsCeilingByCount(rows) == Len(rows) > SizeCeiling
ExceedsCeiling(rows) == df_file_size(rows) > SizeCeiling

Min(a, b) == IF a < b THEN a ELSE b

\* chunkify's slice items[i : i + chunk_size] (i counted from 0)
ChunkSliceShort(items, i, n) == SubSeq(items, i + 1, Min(i + n, Len(items)) - 1)
ChunkSlice(items, i, n) == SubSeq(items, i + 1, Min(i + n, Len(items)))

\* int(size / i) for the non-negative sizes and positive divisors of the loop
IntDiv(size, i) == size \div i

\* size = len(data); i = 1; chunk = data
GetChunksEnter ==
    /\ bpc = "start"
    /\ bi' = 1
    /\ chunk' = data
    /\ bpc' = "probe"
    /\ UNCHANGED <<data, chunk_size, gpos, emitted, connVars, retryVars, xfVars, helperVars, execVars, stageVars, ctorVars, heapVars, delVars>>

\* One turn of the while loop: i += 1; chunks = chunkify(data, int(size / i));
\* chunk = next(chunks). chunkify raises ValueError at the first next() when
\* chunk_size <= 0.
ProbeSplit ==
    /\ bpc = "probe"
    /\ ExceedsCeiling(chunk)
    /\ bi' = bi + 1
    /\ LET n == IntDiv(Len(data), bi + 1)
       IN IF n <= 0
          THEN /\ bpc' = "ValueError"
               /\ chunk' = chunk
          ELSE /\ bpc' = "probe"
               /\ chunk' = ChunkSlice(data, 0, n)
    /\ UNCHANGED <<data, chunk_size, gpos, emitted, connVars, retryVars, xfVars, helperVars, execVars, stageVars, ctorVars, heapVars, delVars>>

\* The loop ends: return chunkify(data, int(size / i))
ProbeAccept ==
    /\ bpc = "probe"
    /\ ~ExceedsCeiling(chunk)
    /\ chunk_size' = IntDiv(Len(data), bi)
    /\ gpos' = 0
    /\ bpc' = "emit"
    /\ UNCHANGED <<data, bi, chunk, emitted, connVars, retryVars, xfVars, helperVars, execVars, stageVars, ctorVars, heapVars, delVars>>

\* The caller's for loop asks the generator for the next chunk
ChunkifyNext ==
    /\ bpc = "emit"
    /\ IF chunk_size <= 0
       THEN /\ bpc' = "ValueError"
            /\ UNCHANGED <<gpos, emitted>>
       ELSE IF gpos < Len(data)
       THEN /\ emitted' = Append(emitted, ChunkSlice(data, gpos, chunk_size))
            /\ gpos' = gpos + chunk_size
            /\ bpc' = "emit"
       ELSE /\ bpc' = "done"
            /\ UNCHANGED <<gpos, emitted>>
    /\ UNCHANGED <<data, bi, chunk, chunk_size, connVars, retryVars, xfVars, helperVars, execVars, stageVars, ctorVars, heapVars, delVars>>

NextBatch ==
    \/ GetChunksEnter
    \/ ProbeSplit
    \/ ProbeAccept
    \/ ChunkifyNext

(***************************************************************************)
(* Values of record fields.  A text is a sequence of one-character strings; *)
(* an int is its sign and decimal digits (so that twelve-digit numbers stay *)
(* exact); a float is sign, integer digits and the fraction in 1/10000;     *)
(* a date is year*10000 + month*100 + day.                                  *)
(***************************************************************************)
Val(t, neg, s, n) == [t |-> t, neg |-> neg, s |-> s, n |-> n]
PyNone        == Val("none", FALSE, <<>>, 0)
PyStrV(s)     == Val("str", FALSE, s, 0)
PyIntV(neg, digits)      == Val("int", neg, digits, 0)
PyFloatV(neg, digits, frac) == Val("float", neg, digits, frac)
PyInf         == Val("inf", FALSE, <<>>, 0)
PyDateV(y, m, d) == Val("date", FALSE, <<>>, y * 10000 + m * 100 + d)

Digits == {"0", "1", "2", "3", "4", "5", "6", "7", "8", "9"}
DigitVal(c) ==
    CASE c = "0" -> 0 [] c = "1" -> 1 [] c = "2" -> 2 [] c = "3" -> 3 [] c = "4" -> 4
      [] c = "5" -> 5 [] c = "6" -> 6 [] c = "7" -> 7 [] c = "8" -> 8 [] c = "9" -> 9
DigitChar(d) ==
    CASE d = 0 -> "0" [] d = 1 -> "1" [] d = 2 -> "2" [] d = 3 -> "3" [] d = 4 -> "4"
      [] d = 5 -> "5" [] d = 6 -> "6" [] d = 7 -> "7" [] d = 8 -> "8" [] d = 9 -> "9"
AllDigits(s) == \A k \in 1..Len(s) : s[k] \in Digits

RECURSIVE NatOf(_)
NatOf(s) == IF s = <<>> THEN 0 ELSE NatOf(SubSeq(s, 1, Len(s) - 1)) * 10 + DigitVal(s[Len(s)])

RECURSIVE NatStr(_)
NatStr(n) == IF n < 10 THEN <<DigitChar(n)>> ELSE NatStr(n \div 10) \o <<DigitChar(n % 10)>>
IntStr(n) == IF n < 0 THEN <<"-">> \o NatStr(-n) ELSE NatStr(n)

StripZeros(s) ==
    IF \A k \in 1..Len(s) : s[k] = "0" THEN (IF s = <<>> THEN s ELSE <<"0">>)
    ELSE SubSeq(s, CHOOSE j \in 1..Len(s) : s[j] # "0" /\ \A h \in 1..(j - 1) : s[h] = "0", Len(s))

RECURSIVE LStrip(_)
LStrip(s) == IF s # <<>> /\ Head(s) = " " THEN LStrip(Tail(s)) ELSE s
RECURSIVE RStrip(_)
RStrip(s) == IF s # <<>> /\ s[Len(s)] = " " THEN RStrip(SubSeq(s, 1, Len(s) - 1)) ELSE s
Strip(s) == LStrip(RStrip(s))

Pad2(n) == IF n < 10 THEN <<"0">> \o NatStr(n) ELSE NatStr(n)
RECURSIVE PadTo(_, _)
PadTo(s, w) == IF Len(s) >= w THEN s ELSE PadTo(<<"0">> \o s, w)

\* the parts of s between occurrences of the character sep
RECURSIVE Split(_, _)
Split(s, sep) ==
    IF \A k \in 1..Len(s) : s[k] # sep THEN <<s>>
    ELSE LET k == CHOOSE j \in 1..Len(s) : s[j] = sep /\ \A h \in 1..(j - 1) : s[h] # sep
         IN <<SubSeq(s, 1, k - 1)>> \o Split(SubSeq(s, k + 1, Len(s)), sep)

\* Python truthiness of a value
Truthy(v) ==
    CASE v.t = "none" -> FALSE
      [] v.t = "str" -> v.s # <<>>
      [] v.t = "int" -> v.s # <<"0">>
      [] v.t = "float" -> ~(v.s = <<"0">> /\ v.n = 0)
      [] OTHER -> TRUE

\* The outcome of a Python call: a value or a raised exception
Ok(v) == [exc |-> "none", v |-> v]
Raise(e) == [exc |-> e, v |-> PyNone]

RECURSIVE TrimZerosRight(_)
TrimZerosRight(s) ==
    IF Len(s) > 1 /\ s[Len(s)] = "0" THEN TrimZerosRight(SubSeq(s, 1, Len(s) - 1)) ELSE s
FracStr(n) == TrimZerosRight(PadTo(NatStr(n), 4))

DateStr(n) ==
    PadTo(NatStr(n \div 10000), 4) \o <<"-">> \o Pad2((n \div 100) % 100) \o <<"-">> \o Pad2(n % 100)

\* str(v)
PyStr(v) ==
    CASE v.t = "none" -> <<"N", "o", "n", "e">>
      [] v.t = "str" -> v.s
      [] v.t = "int" -> (IF v.neg THEN <<"-">> ELSE <<>>) \o v.s
      [] v.t = "float" -> (IF v.neg THEN <<"-">> ELSE <<>>) \o v.s \o <<".">> \o FracStr(v.n)
      [] v.t = "inf" -> (IF v.neg THEN <<"-">> ELSE <<>>) \o <<"i", "n", "f">>
      [] v.t = "date" -> DateStr(v.n)

\* The integer literal grammar of int(text): surrounding blanks, a sign, digits
IntLiteralBody(neg, body) ==
    [ok |-> body # <<>> /\ AllDigits(body),
     neg |-> neg /\ StripZeros(body) # <<"0">>,
     digits |-> IF body # <<>> /\ AllDigits(body) THEN StripZeros(body) ELSE <<>>]
IntLiteralStripped(u) ==
    IF u # <<>> /\ Head(u) \in {"+", "-"}
    THEN IntLiteralBody(Head(u) = "-", Tail(u))
    ELSE IntLiteralBody(FALSE, u)
IntLiteral(s) == IntLiteralStripped(Strip(s))

IntOfLiteral(lit) == IF lit.ok THEN Ok(PyIntV(lit.neg, lit.digits)) ELSE Raise("ValueError")

\* int(v) for a value that is not None
PyInt(v) ==
    CASE v.t = "int" -> Ok(v)
      [] v.t = "float" -> Ok(PyIntV(v.neg /\ v.s # <<"0">>, v.s))
      [] v.t = "inf" -> Raise("OverflowError")
      [] v.t = "str" -> IntOfLiteral(IntLiteral(v.s))
      [] OTHER -> Raise("TypeError")

\* The decimal literal grammar of float(text): a sign, digits, a point, digits
\* (fractions are kept to four places)
FloatLiteralParts(neg, ip, fp, nparts) ==
    IF nparts \in {1, 2} /\ AllDigits(ip) /\ AllDigits(fp) /\ ip \o fp # <<>>
    THEN [ok |-> TRUE, neg |-> neg,
          digits |-> IF ip = <<>> THEN <<"0">> ELSE StripZeros(ip),
          frac |-> NatOf(SubSeq(fp \o <<"0", "0", "0", "0">>, 1, 4))]
    ELSE [ok |-> FALSE, neg |-> FALSE, digits |-> <<>>, frac |-> 0]
FloatLiteralSplit(neg, parts) ==
    FloatLiteralParts(neg, parts[1], IF Len(parts) = 2 THEN parts[2] ELSE <<>>, Len(parts))
FloatLiteralStripped(u) ==
    IF u # <<>> /\ Head(u) \in {"+", "-"}
    THEN FloatLiteralSplit(Head(u) = "-", Split(Tail(u), "."))
    ELSE FloatLiteralSplit(FALSE, Split(u, "."))
FloatLiteral(s) == FloatLiteralStripped(Strip(s))

FloatOfLiteral(lit) ==
    IF lit.ok THEN Ok(PyFloatV(lit.neg, lit.digits, lit.frac)) ELSE Raise("ValueError")

\* float(v) for a value that is not None
PyFloat(v) ==
    CASE v.t = "int" -> Ok(PyFloatV(v.neg, v.s, 0))
      [] v.t = "float" -> Ok(v)
      [] v.t = "inf" -> Ok(v)
      [] v.t = "str" -> FloatOfLiteral(FloatLiteral(v.s))
      [] OTHER -> Raise("TypeError")

(***************************************************************************)
(* Dates: datetime.strptime with the formats the helpers use, strftime,     *)
(* and datetime.timestamp of a naive datetime in the local timezone.        *)
(***************************************************************************)
IsLeap(y) == (y % 4 = 0 /\ y % 100 # 0) \/ y % 400 = 0
DaysInMonth(y, m) ==
    IF m = 2 THEN (IF IsLeap(y) THEN 29 ELSE 28)
    ELSE IF m \in {4, 6, 9, 11} THEN 30 ELSE 31

\* a strptime field of one or two digits with a value in lo..hi
NumField(p, lo, hi) ==
    /\ Len(p) \in {1, 2}
    /\ AllDigits(p)
    /\ NatOf(p) >= lo
    /\ NatOf(p) <= hi

NoDate == [ok |-> FALSE, y |-> 0, m |-> 0, d |-> 0]

\* the date the three numbers name, when there is such a date
CivilDate(y, m, d) ==
    IF y >= 1 /\ d <= DaysInMonth(y, m) THEN [ok |-> TRUE, y |-> y, m |-> m, d |-> d] ELSE NoDate

StrpDateParts(parts) ==
    IF /\ Len(parts) = 3
       /\ Len(parts[1]) = 4 /\ AllDigits(parts[1])
       /\ NumField(parts[2], 1, 12)
       /\ NumField(parts[3], 1, 31)
    THEN CivilDate(NatOf(parts[1]), NatOf(parts[2]), NatOf(parts[3]))
    ELSE NoDate

\* datetime.strptime(text, "%Y-%m-%d")
StrpDate(s) == StrpDateParts(Split(s, "-"))

StrpSeconds(sec, frac) ==
    /\ Len(sec) = (IF frac THEN 2 ELSE 1)
    /\ NumField(sec[1], 0, 59)
    /\ frac => (Len(sec[2]) \in 1..6 /\ AllDigits(sec[2]))
StrpTimeParts(parts, frac) ==
    /\ Len(parts) = 3
    /\ NumField(parts[1], 0, 23)
    /\ NumField(parts[2], 0, 59)
    /\ StrpSeconds(Split(parts[3], "."), frac)

\* the "%H:%M:%S" part, with ".%f" when frac is asked for
StrpTime(s, frac) == StrpTimeParts(Split(s, ":"), frac)

StrpDateTimeParts(parts, frac) ==
    IF /\ Len(parts) >= 2
       /\ \A k \in 2..(Len(parts) - 1) : parts[k] = <<>>
       /\ StrpTime(parts[Len(parts)], frac)
    THEN StrpDate(parts[1])
    ELSE NoDate

\* datetime.strptime(text, "%Y-%m-%d %H:%M:%S") and "... %H:%M:%S.%f":
\* the blank of the format matches one or more blanks
StrpDateTime(s, frac) == StrpDateTimeParts(Split(s, " "), frac)

\* days from 1970-01-01 to the date
DaysFromCivil(y, m, d) ==
    LET yy == IF m <= 2 THEN y - 1 ELSE y
        era == yy \div 400
        yoe == yy - era * 400
        mp == (m + 9) % 12
        doy == (153 * mp + 2) \div 5 + d - 1
        doe == yoe * 365 + yoe \div 4 - yoe \div 100 + doy
    IN era * 146097 + doe - 719468

\* int(datetime(y, m, d).timestamp()): local midnight, tz seconds east of UTC
Timestamp(y, m, d) == DaysFromCivil(y, m, d) * 86400 - tz

EndsWithBC(s) == Len(s) >= 2 /\ s[Len(s) - 1] = "B" /\ s[Len(s)] = "C"
\* val[:-3]
DropLast3(s) == IF Len(s) <= 3 THEN <<>> ELSE SubSeq(s, 1, Len(s) - 3)

\* result.replace(year=1952) when result.year < 1900, then strftime("%Y-%m-%d")
ClampYear(y) == IF y < 1900 THEN 1952 ELSE y
FixDobFormat(r) ==
    IF r.ok THEN PyStrV(DateStr(ClampYear(r.y) * 10000 + r.m * 100 + r.d)) ELSE PyNone
\* the first of the three formats that parses
FixDobPick(r1, r2, r3) == FixDobFormat(IF r1.ok THEN r1 ELSE IF r2.ok THEN r2 ELSE r3)
FixDobText(val) ==
    FixDobPick(StrpDateTime(val, FALSE), StrpDate(val), StrpDateTime(val, TRUE))
FixDobStr(val) == FixDobText(IF EndsWithBC(val) THEN DropLast3(val) ELSE val)

\* fix_dob(value)
fix_dob(value) == IF ~Truthy(value) THEN PyNone ELSE FixDobStr(PyStr(value))

\* mobile[-10:] and the length test
Last10(text) ==
    IF Len(text) < 10 THEN Ok(PyNone) ELSE Ok(PyStrV(SubSeq(text, Len(text) - 9, Len(text))))
MobileOfInt(i) ==
    IF i.exc = "ValueError" THEN Ok(PyNone)
    ELSE IF i.exc # "none" THEN Raise(i.exc)
    ELSE Last10(PyStr(i.v))

\* mobile_sanity(mobile): int() raising anything but ValueError leaves the helper
mobile_sanity(mobile) == IF mobile.t = "none" THEN Ok(PyNone) ELSE MobileOfInt(PyInt(mobile))

Repeat(s, k) == [i \in 1..(Len(s) * k) |-> s[((i - 1) % Len(s)) + 1]]

NoneOnRaise(i) == IF i.exc = "none" THEN i.v ELSE PyNone
ScaledDigits(neg, digits) == PyIntV(neg /\ digits # <<"0">>, digits)

\* floor(log2(n / d)) for positive n and d
Log2Floor(n, d) ==
    IF n >= d THEN CHOOSE e \in 0..27 : d * 2 ^ e <= n /\ n < d * 2 ^ (e + 1)
    ELSE 0 - (CHOOSE e \in 1..27 : n * 2 ^ e >= d /\ n * 2 ^ (e - 1) < d)
RECURSIVE Pow2Mod100(_)
Pow2Mod100(k) == IF k = 0 THEN 1 ELSE (2 * Pow2Mod100(k - 1)) % 100

\* reward * 100 in IEEE-754 binary64 for a reward x = n / 100 with at most two
\* decimals.  With ex = floor(log2 x), the double nearest to x is x - r / 100 in
\* units of 2^(ex - 52) when r = n * 2^(52 - ex) mod 100 is below 50 (above x
\* otherwise), and the product with 100 is r units below the integer n; it is
\* rounded to the double just below n when r exceeds half the spacing of the
\* doubles below n, which is 2^(ey - ex) units (half that when n is a power
\* of two), ey = floor(log2 n).  int() then truncates to n - 1.
ProductRoundsBelow(r, half) == r > 0 /\ r < 50 /\ r > half
ProductBelow(n, ex, ey) ==
    ProductRoundsBelow(((n % 100) * Pow2Mod100(52 - ex)) % 100,
                       IF n = 2 ^ ey THEN 2 ^ (ey - ex - 2) ELSE 2 ^ (ey - ex - 1))
\* int(x * 100) for the double nearest to x = n / 100, n >= 0
TruncatedProduct(n) ==
    IF n > 0 /\ ProductBelow(n, Log2Floor(n, 100), Log2Floor(n, 1)) THEN n - 1 ELSE n
\* int(reward * 100) for a float: when reward * 100 is no integer the rounding
\* error (below 1e-9 here) cannot reach the next integer; when it is an integer
\* (of at most eight digits) the binary rounding decides
FloatTimes100(digits, frac) ==
    IF frac % 100 = 0 /\ Len(digits) <= 6
    THEN NatStr(TruncatedProduct(NatOf(digits) * 100 + frac \div 100))
    ELSE StripZeros(digits \o Pad2(frac \div 100))

\* modify_reward(reward): int(reward * 100), every exception turned into None.
\* A text times 100 is the text repeated.
modify_reward(reward) ==
    CASE reward.t = "int" ->
            PyIntV(reward.neg, IF reward.s = <<"0">> THEN reward.s ELSE reward.s \o <<"0", "0">>)
      [] reward.t = "float" ->
            ScaledDigits(reward.neg, FloatTimes100(reward.s, reward.n))
      [] reward.t = "str" -> NoneOnRaise(PyInt(PyStrV(Repeat(reward.s, 100))))
      [] OTHER -> PyNone

\* "$D_" + str(int(dob.timestamp())); in the except branch value.pop("dob", None)
\* is called, and no Record scalar has a pop method, so the handler itself
\* raises AttributeError
EpochOfDate(r) ==
    IF r.ok THEN Ok(PyStrV(<<"$", "D", "_">> \o IntStr(Timestamp(r.y, r.m, r.d))))
    ELSE Raise("AttributeError")

\* unix_epoch(value)
unix_epoch(value) == EpochOfDate(IF value.t = "str" THEN StrpDate(value.s) ELSE NoDate)

\* dateutil.parser.parse(value).strftime("%Y-%m-%d"), reduced to ISO dates:
\* anything else (and any value that is no text) raises inside the try
IsoOfDate(r) ==
    IF r.ok THEN Ok(PyStrV(DateStr(r.y * 10000 + r.m * 100 + r.d))) ELSE Raise("ParserError")
parse_strftime(value) == IsoOfDate(IF value.t = "str" THEN StrpDate(value.s) ELSE NoDate)

(***************************************************************************)
(* utils/data_sanity_helpers.py: records are functions from field names    *)
(***************************************************************************)
Put(d, k, v) == [x \in (DOMAIN d) \cup {k} |-> IF x = k THEN v ELSE d[x]]
Del(d, k) == [x \in (DOMAIN d) \ {k} |-> d[x]]
EmptyDict == [x \in {} |-> PyNone]
\* data.get(k)
Get(d, k) == IF k \in DOMAIN d THEN d[k] ELSE PyNone

\* try: ... except ValueError: the value stays; any other exception leaves
KeepOnValueError(r, v) == IF r.exc = "ValueError" THEN Ok(v) ELSE r
\* try: ... except Exception: the value stays
KeepOnException(r, v) == IF r.exc # "none" THEN Ok(v) ELSE r
\* value = unix_epoch(data[key]); if value is not None: data[key] = value
KeepOnNone(r, v) == IF r.exc = "none" /\ r.v = PyNone THEN Ok(v) ELSE r

\* One branch of data_type_transformation: the value stored under key for the
\* type, or the exception that leaves the function
Coerce(key, type, v) ==
    CASE type = "string" -> Ok(PyStrV(PyStr(v)))
      [] type = "int" -> (IF v.t = "none" THEN Ok(PyNone) ELSE KeepOnValueError(PyInt(v), v))
      [] type = "float" -> (IF v.t = "none" THEN Ok(PyNone) ELSE KeepOnValueError(PyFloat(v), v))
      [] type = "date" ->
            (IF key = "dob" THEN Ok(fix_dob(v)) ELSE KeepOnException(parse_strftime(v), v))
      [] type = "mobile_sanity" -> mobile_sanity(v)
      [] type = "modify_reward" -> Ok(modify_reward(v))
      [] type = "Unix_epoch" -> (IF Truthy(v) THEN KeepOnNone(unix_epoch(v), v) ELSE Ok(v))
      [] OTHER -> Ok(v)

\* data_type_transformation(data, type_map): the keys of type_map in order;
\* the dict is changed in place, so a raise leaves the earlier keys coerced
RECURSIVE DttFrom(_, _, _)
DttStore(d, type_map, k, key, c) ==
    IF c.exc # "none" THEN [exc |-> c.exc, data |-> d]
    ELSE DttFrom(Put(d, key, c.v), type_map, k + 1)
DttKey(d, type_map, k, key, type) ==
    IF key \notin DOMAIN d THEN DttFrom(d, type_map, k + 1)
    ELSE DttStore(d, type_map, k, key, Coerce(key, type, d[key]))
DttFrom(d, type_map, k) ==
    IF k > Len(type_map) THEN [exc |-> "none", data |-> d]
    ELSE DttKey(d, type_map, k, type_map[k][1], type_map[k][2])

data_type_transformation(d, type_map) == DttFrom(d, type_map, 1)

\* identity_field_check(data, identity_field): identity_field is a name or a
\* list of names; a field counts when data.get(field) is truthy
RECURSIVE FirstPresent(_, _, _)
FirstPresent(d, names, k) ==
    IF k > Len(names) THEN PyNone
    ELSE IF names[k] \in DOMAIN d THEN d[names[k]]
    ELSE FirstPresent(d, names, k + 1)
RECURSIVE FirstTruthy(_, _, _)
FirstTruthy(d, names, k) ==
    IF k > Len(names) THEN PyNone
    ELSE IF Truthy(Get(d, names[k])) THEN Get(d, names[k])
    ELSE FirstTruthy(d, names, k + 1)

identity_field_check(d, identity_field) == FirstTruthy(d, identity_field.names, 1)

extract_attributes_unfiltered(d, attributes) == d
\* extract_attributes(data, attributes)
extract_attributes(d, attributes) ==
    [k \in {attributes[j] : j \in 1..Len(attributes)} \cap DOMAIN d |-> d[k]]

\* swap_key_name(data, swap_map): the pairs of swap_map in order, in place
RECURSIVE SwapFrom(_, _, _)
SwapPair(d, swap_map, k, old, new) ==
    IF old \in DOMAIN d
    THEN SwapFrom(Del(Put(d, new, d[old]), old), swap_map, k + 1)
    ELSE SwapFrom(d, swap_map, k + 1)
SwapFrom(d, swap_map, k) ==
    IF k > Len(swap_map) THEN d
    ELSE SwapPair(d, swap_map, k, swap_map[k][1], swap_map[k][2])

swap_key_name(d, swap_map) == SwapFrom(d, swap_map, 1)

\* get_gender_implicit_data(data, parameters) for a record without the signal
\* column: every count defaults to int(0)
get_gender_implicit_data(d) ==
    [k \in {"gender_men_dp", "gender_women_dp", "gender_kids_dp", "gender_home_dp"} |->
        PyIntV(FALSE, <<"0">>)]

(***************************************************************************)
(* operators/clevertap_user_profile.py                                     *)
(***************************************************************************)
\* sample texts
T_ab      == <<"a", "b">>
T_u1      == <<"u", "1">>
T_u9      == <<"u", "9">>
T_12      == <<"1", "2">>
T_5       == <<"5">>
T_date    == <<"1", "9", "7", "0", "-", "0", "1", "-", "0", "2">>
T_baddate == <<"2", "0", "2", "0", "-", "1", "3", "-", "4", "5">>
T_dob     == <<"1", "8", "9", "9", "-", "0", "5", "-", "0", "3">>

Int7 == PyIntV(FALSE, <<"7">>)
Int0 == PyIntV(FALSE, <<"0">>)

\* What a field may hold: the Record scalars (text, number, date, null)
XValues ==
    {PyNone, PyStrV(T_ab), PyStrV(T_12), PyStrV(T_date), PyStrV(T_baddate),
     Int7, Int0, PyFloatV(FALSE, T_12, 3456), PyInf, PyDateV(2020, 2, 29)}
CidValues == {PyNone, Int7, PyStrV(T_u1)}
EmailValues == {PyStrV(T_ab)}
DobValues == {PyStrV(T_dob)}

\* the records over the fields f1, f2 with values from V1, V2 (a field may be absent)
Recs2(f1, V1, f2, V2) ==
    {[k \in {f1, f2} |-> IF k = f1 THEN v1 ELSE v2] : v1 \in V1, v2 \in V2}
        \cup {[k \in {f1} |-> v1] : v1 \in V1}
        \cup {[k \in {f2} |-> v2] : v2 \in V2}
        \cup {EmptyDict}
Merge(a, b) == [k \in (DOMAIN a) \cup (DOMAIN b) |-> IF k \in DOMAIN a THEN a[k] ELSE b[k]]

IdRecords == Recs2("customer_id", CidValues, "email", EmailValues)
Records == {Merge(a, b) : a \in IdRecords, b \in Recs2("x", XValues, "dob", DobValues)}

Types == {"string", "int", "float", "date", "mobile_sanity", "modify_reward", "Unix_epoch"}

IdentityName(n) == [isstr |-> TRUE, names |-> <<n>>]
IdentityList(ns) == [isstr |-> FALSE, names |-> ns]
NoAttributes == [set |-> FALSE, names |-> <<>>]
Attributes(ns) == [set |-> TRUE, names |-> ns]
Config(id, fn, tm, at, sw) ==
    [identity |-> id, transformation_fn |-> fn, data_type_map |-> tm,
     attributes |-> at, swap_key_map |-> sw]

\* Operator configurations: one type per field, the steps combined, identity lists
CoercionConfigs ==
    {Config(IdentityName("customer_id"), "None", tm, NoAttributes, <<>>) :
        tm \in {<<>>, <<<<"dob", "date">>>>, <<<<"customer_id", "string">>>>}
               \cup {<<<<"x", t>>>> : t \in Types}}
ChainConfigs ==
    {Config(IdentityName("customer_id"), fn, <<<<"x", "string">>, <<"y", "int">>>>, at, sw) :
        fn \in {"None", "get_gender_implicit_data", "caller_fn"},
        at \in {NoAttributes, Attributes(<<"x">>), Attributes(<<"y">>)},
        sw \in {<<>>, <<<<"x", "y">>>>}}
ListConfigs ==
    {Config(IdentityList(ns), "None", <<<<"customer_id", "string">>>>, NoAttributes, <<>>) :
        ns \in {<<"customer_id", "email">>, <<"email", "customer_id">>}}
Configs == CoercionConfigs \cup ChainConfigs \cup ListConfigs

\* A transformation function handed in by the caller as a callable: it
\* rewrites the identity field and adds a text field y to a copy of the record
caller_fn(d) == Put(Put(d, "customer_id", PyStrV(T_u9)), "y", PyStrV(T_5))

\* self.transformation_fn(data, self.parameters)
ApplyFn(fn, d) ==
    IF fn = "get_gender_implicit_data" THEN get_gender_implicit_data(d)
    ELSE IF fn = "caller_fn" THEN caller_fn(d)
    ELSE d

Ret(kind, exc, identity, d) == [kind |-> kind, exc |-> exc, identity |-> identity, profileData |-> d]
NoRet == Ret("none", "none", PyNone, EmptyDict)

\* transform_payload(data) under configuration c: what it returns or raises
\* (ret), how many invalid records it counts (invalid), and the caller's dict
\* after the call (arg): the steps that work in place work on the caller's
\* dict until a step has made a copy.
\* res["profileData"] = data; return res
Envelope(c, d, identity, d2, d4) ==
    [ret |-> Ret("envelope", "none", identity, d4), invalid |-> 0,
     arg |-> IF c.transformation_fn # "None" THEN d
             ELSE IF c.attributes.set THEN d2 ELSE d4]
\* data = swap_key_name(data, self.swap_key_map)
Renamed(c, d, identity, d2, d3) ==
    Envelope(c, d, identity, d2, swap_key_name(d3, c.swap_key_map))
\* if self.attributes is not None: data = extract_attributes(data, self.attributes)
ProjectedAfterRename(c, d, identity, t) ==
    IF t.exc # "none"
    THEN [ret |-> Ret("raise", t.exc, PyNone, EmptyDict), invalid |-> 0,
          arg |-> IF c.transformation_fn # "None" THEN d ELSE t.data]
    ELSE Envelope(c, d, identity, t.data,
                  IF c.attributes.set
                  THEN extract_attributes(swap_key_name(t.data, c.swap_key_map),
                                          c.attributes.names)
                  ELSE swap_key_name(t.data, c.swap_key_map))
Projected(c, d, identity, t) ==
    IF t.exc # "none"
    THEN [ret |-> Ret("raise", t.exc, PyNone, EmptyDict), invalid |-> 0,
          arg |-> IF c.transformation_fn # "None" THEN d ELSE t.data]
    ELSE Renamed(c, d, identity, t.data,
                 IF c.attributes.set THEN extract_attributes(t.data, c.attributes.names)
                 ELSE t.data)
\* data = self.transformation_fn(data, self.parameters);
\* data = data_type_transformation(data, self.data_type_map)
Coerced(c, d, identity) ==
    Projected(c, d, identity,
              data_type_transformation(ApplyFn(c.transformation_fn, d), c.data_type_map))
\* identity = identity_field_check(data, self.identity); if identity is None: ...
IdentifiedUncounted(c, d, identity) ==
    IF identity = PyNone
    THEN [ret |-> Ret("None", "none", PyNone, EmptyDict), invalid |-> 0, arg |-> d]
    ELSE Coerced(c, d, identity)
Identified(c, d, identity) ==
    IF identity = PyNone
    THEN [ret |-> Ret("None", "none", PyNone, EmptyDict), invalid |-> 1, arg |-> d]
    ELSE Coerced(c, d, identity)

transform_payload(c, d) == Identified(c, d, identity_field_check(d, c.identity))

TransformPayloadEffect(rec, r) ==
    /\ xret' = r.ret
    /\ xarg' = r.arg
    /\ TOTAL_INVALID_RECORD' = TOTAL_INVALID_RECORD + r.invalid
    /\ xin' = rec
    /\ xcall' = "transform_payload"
    /\ xpc' = "done"
    /\ nOps' = nOps + 1
    /\ UNCHANGED <<tz, op, TOTAL_RECORD_PROCESSED, TOTAL_RECORD_SEND, pd_chunk, payload>>
    /\ UNCHANGED <<connVars, retryVars, batchVars, helperVars, execVars, stageVars, ctorVars, heapVars, delVars>>

\* A call of transform_payload on the operator
TransformPayloadCall(rec) == TransformPayloadEffect(rec, transform_payload(op, rec))

DataTypeTransformationEffect(rec, t) ==
    /\ xret' = IF t.exc = "none" THEN Ret("dict", "none", PyNone, t.data)
               ELSE Ret("raise", t.exc, PyNone, EmptyDict)
    /\ xarg' = t.data
    /\ xin' = rec
    /\ xcall' = "data_type_transformation"
    /\ xpc' = "done"
    /\ nOps' = nOps + 1
    /\ UNCHANGED <<tz, op, TOTAL_RECORD_PROCESSED, TOTAL_RECORD_SEND, TOTAL_INVALID_RECORD,
                   pd_chunk, payload>>
    /\ UNCHANGED <<connVars, retryVars, batchVars, helperVars, execVars, stageVars, ctorVars, heapVars, delVars>>

\* A call of data_type_transformation(data, type_map) with the operator's type map
DataTypeTransformationCall(rec) ==
    DataTypeTransformationEffect(rec, data_type_transformation(rec, op.data_type_map))

\* The functions applied once to the inputs drawn by the initial state
ApplyTransformPayload == xpc = "ready" /\ TransformPayloadCall(xin)
ApplyDataTypeTransformation == xpc = "ready" /\ DataTypeTransformationCall(xin)

NextTransform ==
    \/ ApplyTransformPayload
    \/ ApplyDataTypeTransformation

\* list(map(self.transform_payload, pd_chunk)): the returns in order, the
\* invalid records counted, and the exception that ends the map early
RECURSIVE MapTransform(_, _, _)
MapStep(c, rows, acc, r) ==
    IF r.ret.kind = "raise"
    THEN [acc EXCEPT !.exc = r.ret.exc]
    ELSE MapTransform(c, Tail(rows),
                      [exc |-> "none", rets |-> Append(acc.rets, r.ret),
                       invalid |-> acc.invalid + r.invalid])
MapTransform(c, rows, acc) ==
    IF rows = <<>> THEN acc ELSE MapStep(c, rows, acc, transform_payload(c, Head(rows)))

KeepAll(rets) == rets
\* filter(None, ...): the returns that are not None
RECURSIVE FilterNone(_)
FilterNone(rets) ==
    IF rets = <<>> THEN <<>>
    ELSE IF Head(rets).kind = "None" THEN FilterNone(Tail(rets))
    ELSE <<Head(rets)>> \o FilterNone(Tail(rets))

\* The chunks the record source can hand over: rows with no field, with an
\* identity field that is null, with the second identity field only, and with both
ChunkRecords ==
    {EmptyDict,
     [k \in {"customer_id"} |-> PyNone],
     [k \in {"email"} |-> PyStrV(T_ab)],
     [k \in {"customer_id", "email"} |-> IF k = "email" THEN PyStrV(T_ab) ELSE PyStrV(T_u1)]}
Chunks == UNION {[1..n -> ChunkRecords] : n \in 0..MaxChunk}
OperatorConfigs ==
    {Config(id, "None", tm, NoAttributes, <<>>) :
        id \in {IdentityName("customer_id"), IdentityList(<<"customer_id", "email">>)},
        tm \in {<<>>, <<<<"customer_id", "string">>>>, <<<<"email", "Unix_epoch">>>>}}

\* The body of payload_generator's loop for the chunk rows, m being the mapped chunk
\* and kept the returns left by the filter
PayloadGeneratorBody(rows, m, kept) ==
    /\ TOTAL_RECORD_PROCESSED' = TOTAL_RECORD_PROCESSED + Len(rows)
    /\ TOTAL_INVALID_RECORD' = TOTAL_INVALID_RECORD + m.invalid
    /\ IF m.exc = "none"
       THEN /\ TOTAL_RECORD_SEND' = TOTAL_RECORD_SEND + Len(kept)
            /\ payload' = kept
            /\ xret' = Ret("payload", "none", PyNone, EmptyDict)
            /\ xpc' = "done"
       ELSE /\ TOTAL_RECORD_SEND' = TOTAL_RECORD_SEND
            /\ payload' = payload
            /\ xret' = Ret("raise", m.exc, PyNone, EmptyDict)
            /\ xpc' = "raised"
    /\ pd_chunk' = rows
    /\ xcall' = "payload_generator"
    /\ nOps' = nOps + 1
    /\ UNCHANGED <<tz, op, xin, xarg>>
    /\ UNCHANGED <<connVars, retryVars, batchVars, helperVars, execVars, stageVars, ctorVars, heapVars, delVars>>

PayloadGeneratorMapped(rows, m) == PayloadGeneratorBody(rows, m, FilterNone(m.rets))

\* One turn of payload_generator's loop on the chunk the source hands over
PayloadGeneratorNext(rows) ==
    /\ xpc # "raised"
    /\ nOps < MaxOps
    /\ PayloadGeneratorMapped(
          rows, MapTransform(op, rows, [exc |-> "none", rets |-> <<>>, invalid |-> 0]))

\* transform_payload called on the operator with one record
OperatorTransformPayload(rec) ==
    /\ xpc # "raised"
    /\ nOps < MaxOps
    /\ TransformPayloadCall(rec)

NextOperator ==
    \/ \E rows \in Chunks : PayloadGeneratorNext(rows)
    \/ \E rec \in IdRecords : OperatorTransformPayload(rec)

(***************************************************************************)
(* utils/data_sanity_helpers.py: each helper called on its own              *)
(***************************************************************************)
\* Sample texts: dates of birth, mobile numbers
T_dob_bc     == <<"1", "8", "9", "9", "-", "0", "5", "-", "0", "3", " ", "B", "C">>
T_bad_bc     == <<"2", "0", "2", "0", "-", "1", "3", "-", "4", "5", " ", "B", "C">>
T_tight_bc   == <<"1", "8", "9", "9", "-", "0", "5", "-", "1", "3", "B", "C">>
T_leap       == <<"1", "8", "9", "6", "-", "0", "2", "-", "2", "9">>
T_short      == <<"2", "0", "0", "1", "-", "5", "-", "3">>
T_dt         == <<"2", "0", "0", "1", "-", "0", "5", "-", "0", "3", " ", "1", "0", ":", "2", "0", ":", "3", "0">>
T_dtf        == <<"2", "0", "0", "1", "-", "0", "5", "-", "0", "3", " ", "1", "0", ":", "2", "0", ":", "3", "0", ".", "5">>
T_1900       == <<"1", "9", "0", "0", "-", "0", "1", "-", "0", "1">>
T_y0         == <<"0", "0", "0", "0", "-", "0", "1", "-", "0", "1">>
T_mob12      == <<"9", "1", "9", "8", "7", "6", "5", "4", "3", "2", "1", "0">>
T_mob10      == <<"9", "8", "7", "6", "5", "4", "3", "2", "1", "0">>
T_mobsp      == <<" ", "9", "1", "9", "8", "7", "6", "5", "4", "3", "2", "1", "0", " ">>
T_mobdot     == <<"9", "8", "7", "6", "5", ".", "4", "3", "2", "1", "0">>
T_123        == <<"1", "2", "3">>
T_neg9       == <<"9", "8", "7", "6", "5", "4", "3", "2", "1">>

\* What a caller may hand to fix_dob, mobile_sanity and modify_reward
DobInputs ==
    {PyNone, PyStrV(<<>>), Int0, Int7, PyFloatV(FALSE, T_12, 3456), PyInf,
     PyDateV(1899, 5, 3), PyDateV(2020, 2, 29)}
        \cup {PyStrV(t) : t \in {T_ab, T_dob, T_date, T_baddate, T_dob_bc, T_bad_bc, T_tight_bc,
                                 T_leap, T_short, T_dt, T_dtf, T_1900, T_y0}}
MobileInputs ==
    {PyNone, PyStrV(<<>>), Int0, Int7, PyIntV(FALSE, T_mob12), PyIntV(FALSE, T_mob10),
     PyIntV(FALSE, T_123), PyIntV(TRUE, T_mob10), PyIntV(TRUE, T_neg9),
     PyFloatV(FALSE, T_mob12, 7000), PyFloatV(FALSE, T_12, 3456), PyInf, PyDateV(2020, 2, 29)}
        \cup {PyStrV(t) : t \in {T_ab, T_mob12, T_mob10, T_mobsp, T_mobdot, T_123}}
RewardInputs ==
    {PyNone, PyStrV(<<>>), PyStrV(T_ab), PyStrV(T_12), PyStrV(T_date), Int0, Int7,
     PyIntV(TRUE, T_12), PyInf, PyDateV(2020, 2, 29)}
        \cup {PyFloatV(neg, digits, frac) :
                 neg \in BOOLEAN, digits \in {<<"0">>, T_12},
                 frac \in {0, 2900, 3456, 3500, 5000, 9999}}

\* Records and arguments for swap_key_name, extract_attributes and identity_field_check
HelperRecords ==
    {Merge(a, b) : a \in Recs2("x", {Int7, PyStrV(T_ab)}, "y", {Int0}),
                   b \in {EmptyDict, [k \in {"other"} |-> PyIntV(FALSE, <<"1">>)]}}
SwapMaps ==
    {<<>>, <<<<"x", "n">>>>, <<<<"x", "x">>>>, <<<<"x", "y">>>>,
     <<<<"x", "n">>, <<"n", "m">>>>, <<<<"x", "n">>, <<"y", "m">>>>}
AttributeLists == {<<>>, <<"x">>, <<"y", "x">>, <<"x", "x">>, <<"zz">>, <<"x", "other">>}
IdentityRecords ==
    Recs2("customer_id", {PyNone, Int0, PyStrV(<<>>), Int7, PyStrV(T_u1)}, "email", {PyStrV(T_ab)})
Identities ==
    {IdentityName("customer_id"), IdentityName("email"), IdentityList(<<>>),
     IdentityList(<<"customer_id", "email">>), IdentityList(<<"email", "customer_id">>)}

\* What a call leaves behind: the helper, its arguments, its result and the
\* caller's dict after the call
HelperEffect(name, args, r, after) ==
    /\ hcall' = name
    /\ harg' = args
    /\ hres' = r
    /\ hafter' = after
    /\ UNCHANGED <<connVars, retryVars, batchVars, xfVars, execVars, stageVars, ctorVars, heapVars, delVars>>

FixDobCall(value) == HelperEffect("fix_dob", <<value>>, Ok(fix_dob(value)), EmptyDict)
MobileSanityCall(mobile) ==
    HelperEffect("mobile_sanity", <<mobile>>, mobile_sanity(mobile), EmptyDict)
ModifyRewardCall(reward) ==
    HelperEffect("modify_reward", <<reward>>, Ok(modify_reward(reward)), EmptyDict)
\* swap_key_name works on the caller's dict and returns it
SwapKeyNameReturn(d, swap_map, r) == HelperEffect("swap_key_name", <<d, swap_map>>, Ok(r), r)
SwapKeyNameCall(d, swap_map) == SwapKeyNameReturn(d, swap_map, swap_key_name(d, swap_map))
\* extract_attributes builds a new dict
ExtractAttributesCall(d, attributes) ==
    HelperEffect("extract_attributes", <<d, attributes>>, Ok(extract_attributes(d, attributes)), d)
IdentityFieldCheckCall(d, identity_field) ==
    HelperEffect("identity_field_check", <<d, identity_field>>,
                 Ok(identity_field_check(d, identity_field)), d)

NextHelper ==
    \/ \E value \in DobInputs : FixDobCall(value)
    \/ \E mobile \in MobileInputs : MobileSanityCall(mobile)
    \/ \E reward \in RewardInputs : ModifyRewardCall(reward)
    \/ \E d \in HelperRecords, swap_map \in SwapMaps : SwapKeyNameCall(d, swap_map)
    \/ \E d \in HelperRecords, attributes \in AttributeLists : ExtractAttributesCall(d, attributes)
    \/ \E d \in IdentityRecords, identity_field \in Identities :
          IdentityFieldCheckCall(d, identity_field)

(***************************************************************************)
(* operators/clevertap_user_profile.py: execute, which drives               *)
(* payload_generator, which drives get_data_df.                             *)
(***************************************************************************)
MaxRows == 6          \* rows of the record source
MaxPayloadSize == 4   \* the operator's payload_size

NoSource == [df |-> FALSE, key |-> FALSE, rows |-> 0, payload_size |-> 1]
NoItem == [kind |-> "none", len |-> 0]
DeliveryOutcomes == {"response", "ConnectionError", "HTTPError"}

\* np.array_split(ary, sections) with a number: int(sections) parts, and
\* ValueError when that is not positive
array_split(rows, sections) ==
    IF sections <= 0 THEN Raise("ValueError") ELSE Ok([kind |-> "list", len |-> sections])

\* get_data_df up to its first yield: the whole list of splits in one yield,
\* or the chunked CSV reader in one yield, or a plain return when the key is
\* missing
get_data_df(src) ==
    IF src.df THEN array_split(src.rows, src.rows \div src.payload_size)
    ELSE IF ~src.key THEN Ok(NoItem)
    ELSE Ok([kind |-> "reader", len |-> 0])
\* get_data_df has one yield on each path: resumed after it, the generator ends
GetDataDfNext(src, item) == IF item = NoItem THEN get_data_df(src) ELSE Ok(NoItem)

\* payload_generator's body on the item: len(pd_chunk) is added to the
\* processed counter, then pd_chunk.where(...), which a list does not have;
\* the CSV reader has no len()
PayloadOfItem(item) ==
    IF item.kind = "list" THEN [exc |-> "AttributeError", counted |-> item.len]
    ELSE IF item.kind = "reader" THEN [exc |-> "TypeError", counted |-> 0]
    ELSE [exc |-> "none", counted |-> item.len]

ExecuteEffect(pc, item, exc, counted, sent, done) ==
    /\ epc' = pc
    /\ eitem' = item
    /\ eexc' = exc
    /\ TOTAL_RECORD_PROCESSED' = TOTAL_RECORD_PROCESSED + counted
    /\ uploads' = uploads \o sent
    /\ chunk_completed' = chunk_completed + done
    /\ UNCHANGED <<esrc, tz, op, xin, xpc, xcall, xret, xarg, TOTAL_RECORD_SEND,
                   TOTAL_INVALID_RECORD, pd_chunk, payload, nOps>>
    /\ UNCHANGED <<connVars, retryVars, batchVars, helperVars, stageVars, ctorVars, heapVars, delVars>>

\* The arguments of ClevertapProfileOperator(...): df is None, a pandas
\* DataFrame or a list of row dicts, of some rows; s3_bucket and s3_key are
\* given or left None
NoCtorArgs == [df |-> "None", rows |-> 0, s3_bucket |-> FALSE, s3_key |-> FALSE,
               payload_size |-> 1]
CtorArgs ==
    {[df |-> d, rows |-> n, s3_bucket |-> b, s3_key |-> k, payload_size |-> p] :
        d \in {"None", "DataFrame", "list"}, n \in 0..MaxRows, b \in BOOLEAN, k \in BOOLEAN,
        p \in 1..MaxPayloadSize}
        \ [df : {"None"}, rows : 1..MaxRows, s3_bucket : BOOLEAN, s3_key : BOOLEAN,
           payload_size : 1..MaxPayloadSize]

\* not df: None and an empty list are false, a list with rows is true, and a
\* DataFrame refuses to be read as a truth value
NotDf(a) ==
    IF a.df = "DataFrame" THEN Raise("ValueError")
    ELSE Ok(a.df = "None" \/ a.rows = 0)
\* if not df or not s3_bucket and not s3_key: raise Exception("data for payload not passed")
CtorCheck(a, notdf) ==
    IF notdf.exc # "none" THEN notdf.exc
    ELSE IF notdf.v \/ (~a.s3_bucket /\ ~a.s3_key) THEN "data for payload not passed"
    ELSE "none"
\* ClevertapProfileOperator.__init__: the check, then the attributes
ConstructEffect(a, exc) ==
    /\ eexc' = exc
    /\ epc' = IF exc = "none" THEN "init" ELSE "unbuilt"
    /\ esrc' = IF exc = "none"
               THEN [df |-> a.df # "None", key |-> a.s3_key, rows |-> a.rows,
                     payload_size |-> a.payload_size]
               ELSE esrc
    /\ UNCHANGED <<eitem, chunk_completed, uploads, ctor>>
    /\ UNCHANGED <<connVars, retryVars, batchVars, xfVars, helperVars, stageVars, heapVars, delVars>>
Construct == epc = "new" /\ ConstructEffect(ctor, CtorCheck(ctor, NotDf(ctor)))

\* chunk_completed = 0; ct = ClevertapHook(conn_id=self.conn_id)
ExecuteBegin == epc = "init" /\ ExecuteEffect("loop", NoItem, "none", 0, <<>>, 0)

\* response = ct.upload_user_profiles(payload); chunk_completed += 1
ExecuteDeliver(item, o) ==
    IF o = "response" THEN ExecuteEffect("loop", item, "none", item.len, <<item>>, 1)
    ELSE ExecuteEffect("raised", item, o, item.len, <<item>>, 0)
\* the payload the generator yields is delivered; what it raises leaves execute
ExecuteOnPayload(item, b, o) ==
    IF b.exc # "none" THEN ExecuteEffect("raised", item, b.exc, b.counted, <<>>, 0)
    ELSE ExecuteDeliver(item, o)
\* for payload in self.payload_generator(): the generator is resumed
ExecuteOnItem(g, o) ==
    IF g.exc # "none" THEN ExecuteEffect("raised", eitem, g.exc, 0, <<>>, 0)
    ELSE IF g.v = NoItem THEN ExecuteEffect("returned", eitem, "none", 0, <<>>, 0)
    ELSE ExecuteOnPayload(g.v, PayloadOfItem(g.v), o)
\* One turn of the loop of execute
ExecuteIteration(o) == epc = "loop" /\ ExecuteOnItem(GetDataDfNext(esrc, eitem), o)

NextExecute ==
    \/ Construct
    \/ ExecuteBegin
    \/ \E o \in DeliveryOutcomes : ExecuteIteration(o)

(***************************************************************************)
(* hooks/netcore.py upload_user_profiles and hooks/aws_s3.py                *)
(* upload_df_to_s3, load_file: a batch is staged as a CSV object, then its  *)
(* location is posted.                                                      *)
(***************************************************************************)
MaxClock == 2     \* the clock runs from 0 to MaxClock milliseconds
MaxStaged == 3    \* calls of upload_user_profiles per behaviour

Batches == {"b1", "b2"}
NoObjects == [k \in {} |-> "b1"]

\* key = f"netcore_prive_data/{http_conn_id}_user_profile_{ms}_{current_date()}_part_{count}.csv ":
\* the parts that vary; current_date() is read off the same clock as ms
StagingKey(ms, part) == <<"netcore", ms, part>>

\* load_file(filename, key, bucket_name) with replace left at True:
\* client.upload_file writes the object, replacing one stored under the key
load_file(objs, key, content) ==
    [k \in DOMAIN objs \cup {key} |-> IF k = key THEN content ELSE objs[k]]

\* upload_df_to_s3(dataframe, bucket_name, key): the client rejects a bucket
\* name of None; after the upload check_for_key finds the object
upload_df_to_s3(objs, bucket, key, content) ==
    IF bucket = "None" THEN [exc |-> "ParamValidationError", objs |-> objs]
    ELSE [exc |-> "none", objs |-> load_file(objs, key, content)]

StageEffect(b, c, objs, res, n) ==
    /\ bucket_name' = b
    /\ count' = c
    /\ objects' = objs
    /\ sres' = res
    /\ nStaged' = nStaged + n
    /\ UNCHANGED <<connVars, retryVars, batchVars, xfVars, helperVars, execVars, ctorVars, heapVars, delVars>>

\* NetcoreHook(conn_id): a hook of a new run, or another hook of this one
NetcoreHookInit == StageEffect("None", 0, objects, "none", 0) /\ UNCHANGED now

\* the cached property connection, read for the first time
NetcoreConnection ==
    /\ bucket_name = "None"
    /\ StageEffect("ip_whitelisted_bucket", count, objects, sres, 0)
    /\ UNCHANGED now

\* time passes
Tick == now < MaxClock /\ now' = now + 1 /\ StageEffect(bucket_name, count, objects, sres, 0)

\* upload_user_profiles(data_payload): stage, count += 1, post the location
UploadStaged(u, o) ==
    IF u.exc # "none" THEN StageEffect(bucket_name, count, u.objs, u.exc, 1)
    ELSE StageEffect(bucket_name, count + 1, u.objs, o, 1)
UploadUserProfiles(batch, o) ==
    /\ nStaged < MaxStaged
    /\ UploadStaged(upload_df_to_s3(objects, bucket_name, StagingKey(now, count), batch), o)
    /\ UNCHANGED now

NextStage ==
    \/ NetcoreHookInit
    \/ NetcoreConnection
    \/ Tick
    \/ \E batch \in Batches, o \in DeliveryOutcomes : UploadUserProfiles(batch, o)

(***************************************************************************)
(* hooks/aws_s3.py S3Hook.delete_objects: the keys are deleted in requests *)
(* of at most 1000 keys; a response that reports errors ends the call.     *)
(***************************************************************************)
MaxChunks == 2           \* full chunks in the longest key list
DeleteChunkSize == 1000  \* chunks(keys, chunk_size=1000)

\* the keys argument: a str names one object, a list names several
StrKey(k) == [kind |-> "str", key |-> k, items |-> <<>>]
KeyList(items) == [kind |-> "list", key |-> 0, items |-> items]
NoKeys == KeyList(<<>>)

\* key lists of distinct keys around the chunk boundaries, in both orders
KeyCounts ==
    {0, 1, 2} \cup {c * DeleteChunkSize + d : c \in 1..MaxChunks, d \in {-1, 0, 1}}
Ascending(n) == [i \in 1..n |-> i]
Descending(n) == [i \in 1..n |-> n + 1 - i]
KeysArgs ==
    {StrKey(1)} \cup {KeyList(Ascending(n)) : n \in KeyCounts}
                \cup {KeyList(Descending(n)) : n \in KeyCounts}
AllKeys == 1..(MaxChunks * DeleteChunkSize + 1)

\* if isinstance(keys, str): keys = [keys]
KeysAsList(arg) == IF arg.kind = "str" THEN <<arg.key>> ELSE arg.items

\* items[i : i + size]
Slice(items, i, size) ==
    SubSeq(items, i + 1, IF i + size < Len(items) THEN i + size ELSE Len(items))

\* chunks(items, chunk_size): successive slices of chunk_size items, one for
\* each i of range(0, len(items), chunk_size)
chunks(items, size) ==
    [c \in 1..((Len(items) + size - 1) \div size) |-> Slice(items, (c - 1) * size, size)]

\* The service (external) answers a request with the keys it deleted and
\* the keys it could not delete; either list is left out when it is empty.
DeleteAnswers == {"all deleted", "first fails", "last fails", "all fail"}
FailedOf(keys, o) ==
    IF o = "all deleted" THEN <<>>
    ELSE IF o = "first fails" THEN <<keys[1]>>
    ELSE IF o = "last fails" THEN <<keys[Len(keys)]>>
    ELSE keys
SeqRange(s) == {s[i] : i \in 1..Len(s)}
DeletedOf(keys, failed) == SelectSeq(keys, LAMBDA k : k \notin SeqRange(failed))
ResponseOf(deleted, failed) ==
    [present |-> (IF deleted = <<>> THEN {} ELSE {"Deleted"})
                 \cup (IF failed = <<>> THEN {} ELSE {"Errors"}),
     Deleted |-> deleted, Errors |-> failed]
s3_delete_objects(keys, o) == ResponseOf(DeletedOf(keys, FailedOf(keys, o)), FailedOf(keys, o))

ErrorsIgnored(response) == FALSE
\* if "Errors" in response
ErrorsInResponse(response) == "Errors" \in response.present

\* errors_keys = [x["Key"] for x in response.get("Errors", [])]
errors_keys(response) == IF "Errors" \in response.present THEN response.Errors ELSE <<>>

DeleteEffect(pc, rest, sent, bucket, errs) ==
    /\ dpc' = pc
    /\ dchunks' = rest
    /\ dreq' = sent
    /\ dbucket' = bucket
    /\ derrors' = errs
    /\ UNCHANGED <<connVars, retryVars, batchVars, xfVars, helperVars, execVars, stageVars, ctorVars, heapVars>>

\* delete_objects(bucket, keys) up to the loop: the str case, get_conn, and
\* the generator over the chunks
DeleteObjectsBegin ==
    /\ dpc = "idle"
    /\ DeleteEffect("loop", chunks(KeysAsList(dkeys), DeleteChunkSize), <<>>, dbucket, <<>>)
    /\ UNCHANGED dkeys

\* one pass of the loop: the request for the next chunk, then the raise when
\* the response reports errors; the call returns when the chunks are used up
DeleteOnResponse(sent, rest, response) ==
    IF ErrorsInResponse(response)
    THEN DeleteEffect("raised", rest, sent, dbucket \ SeqRange(response.Deleted),
                      errors_keys(response))
    ELSE DeleteEffect("loop", rest, sent, dbucket \ SeqRange(response.Deleted), <<>>)
DeleteObjectsIteration(o) ==
    /\ dpc = "loop"
    /\ IF dchunks = <<>>
       THEN DeleteEffect("returned", dchunks, dreq, dbucket, <<>>)
       ELSE DeleteOnResponse(Append(dreq, Head(dchunks)), Tail(dchunks),
                             s3_delete_objects(Head(dchunks), o))
    /\ UNCHANGED dkeys

NextDelete ==
    \/ DeleteObjectsBegin
    \/ \E o \in DeleteAnswers : DeleteObjectsIteration(o)

(***************************************************************************)
(* Specifications                                                          *)
(***************************************************************************)
\* connection resolution
InitConn ==
    /\ ENV \in {"prod", "preprod", "unset"}
    /\ store \in Stores
    /\ lru = <<>>
    /\ okFetches = [n \in SecretNames |-> 0]
    /\ failFetches = [n \in SecretNames |-> 0]
    /\ lastRes = Res("none", NoArg, FALSE, "", NoConn)
    /\ nCalls = 0
    /\ hook = "ClevertapHook"
    /\ transport = "flaky"
    /\ rpc = "idle"
    /\ attempt_number = 0
    /\ outcome = "none"
    /\ delivered = NoDelivery
    /\ sleeps = <<>>
    /\ nDeliveries = 0
    /\ data = <<>>
    /\ bpc = "start"
    /\ bi = 1
    /\ chunk = <<>>
    /\ chunk_size = 0
    /\ gpos = 0
    /\ emitted = <<>>
    /\ tz = 0
    /\ op = Config(IdentityName("customer_id"), "None", <<>>, NoAttributes, <<>>)
    /\ xin = EmptyDict
    /\ xpc = "ready"
    /\ xcall = "none"
    /\ xret = NoRet
    /\ xarg = EmptyDict
    /\ TOTAL_RECORD_PROCESSED = 0
    /\ TOTAL_RECORD_SEND = 0
    /\ TOTAL_INVALID_RECORD = 0
    /\ pd_chunk = <<>>
    /\ payload = <<>>
    /\ nOps = 0
    /\ hcall = "none"
    /\ harg = <<>>
    /\ hres = Ok(PyNone)
    /\ hafter = EmptyDict
    /\ esrc = NoSource
    /\ epc = "init"
    /\ eitem = NoItem
    /\ eexc = "none"
    /\ chunk_completed = 0
    /\ uploads = <<>>
    /\ now = 0
    /\ count = 0
    /\ bucket_name = "None"
    /\ objects = <<>>
    /\ sres = "none"
    /\ nStaged = 0
    /\ ctor = NoCtorArgs
    /\ cached = EmptyDict
    /\ held = NoHeld
    /\ dkeys = NoKeys
    /\ dbucket = {}
    /\ dchunks = <<>>
    /\ dreq = <<>>
    /\ dpc = "idle"
    /\ derrors = <<>>

SpecConn == InitConn /\ [][NextConn]_vars

\* one hook's delivery calls
InitRetry ==
    /\ ENV = "unset"
    /\ store = "bundles"
    /\ lru = <<>>
    /\ okFetches = [n \in SecretNames |-> 0]
    /\ failFetches = [n \in SecretNames |-> 0]
    /\ lastRes = Res("none", NoArg, FALSE, "", NoConn)
    /\ nCalls = 0
    /\ hook \in Hooks
    /\ transport \in Transports
    /\ rpc = "idle"
    /\ attempt_number = 0
    /\ outcome = "none"
    /\ delivered = NoDelivery
    /\ sleeps = <<>>
    /\ nDeliveries = 0
    /\ data = <<>>
    /\ bpc = "start"
    /\ bi = 1
    /\ chunk = <<>>
    /\ chunk_size = 0
    /\ gpos = 0
    /\ emitted = <<>>
    /\ tz = 0
    /\ op = Config(IdentityName("customer_id"), "None", <<>>, NoAttributes, <<>>)
    /\ xin = EmptyDict
    /\ xpc = "ready"
    /\ xcall = "none"
    /\ xret = NoRet
    /\ xarg = EmptyDict
    /\ TOTAL_RECORD_PROCESSED = 0
    /\ TOTAL_RECORD_SEND = 0
    /\ TOTAL_INVALID_RECORD = 0
    /\ pd_chunk = <<>>
    /\ payload = <<>>
    /\ nOps = 0
    /\ hcall = "none"
    /\ harg = <<>>
    /\ hres = Ok(PyNone)
    /\ hafter = EmptyDict
    /\ esrc = NoSource
    /\ epc = "init"
    /\ eitem = NoItem
    /\ eexc = "none"
    /\ chunk_completed = 0
    /\ uploads = <<>>
    /\ now = 0
    /\ count = 0
    /\ bucket_name = "None"
    /\ objects = <<>>
    /\ sres = "none"
    /\ nStaged = 0
    /\ ctor = NoCtorArgs
    /\ cached = EmptyDict
    /\ held = NoHeld
    /\ dkeys = NoKeys
    /\ dbucket = {}
    /\ dchunks = <<>>
    /\ dreq = <<>>
    /\ dpc = "idle"
    /\ derrors = <<>>

SpecRetry == InitRetry /\ [][NextRetry]_vars

\* the batcher on one record list
InitBatch ==
    /\ ENV = "unset"
    /\ store = "bundles"
    /\ lru = <<>>
    /\ okFetches = [n \in SecretNames |-> 0]
    /\ failFetches = [n \in SecretNames |-> 0]
    /\ lastRes = Res("none", NoArg, FALSE, "", NoConn)
    /\ nCalls = 0
    /\ hook = "ClevertapHook"
    /\ transport = "flaky"
    /\ rpc = "idle"
    /\ attempt_number = 0
    /\ outcome = "none"
    /\ delivered = NoDelivery
    /\ sleeps = <<>>
    /\ nDeliveries = 0
    /\ data \in DataLists
    /\ bpc = "start"
    /\ bi = 1
    /\ chunk = <<>>
    /\ chunk_size = 0
    /\ gpos = 0
    /\ emitted = <<>>
    /\ tz = 0
    /\ op = Config(IdentityName("customer_id"), "None", <<>>, NoAttributes, <<>>)
    /\ xin = EmptyDict
    /\ xpc = "ready"
    /\ xcall = "none"
    /\ xret = NoRet
    /\ xarg = EmptyDict
    /\ TOTAL_RECORD_PROCESSED = 0
    /\ TOTAL_RECORD_SEND = 0
    /\ TOTAL_INVALID_RECORD = 0
    /\ pd_chunk = <<>>
    /\ payload = <<>>
    /\ nOps = 0
    /\ hcall = "none"
    /\ harg = <<>>
    /\ hres = Ok(PyNone)
    /\ hafter = EmptyDict
    /\ esrc = NoSource
    /\ epc = "init"
    /\ eitem = NoItem
    /\ eexc = "none"
    /\ chunk_completed = 0
    /\ uploads = <<>>
    /\ now = 0
    /\ count = 0
    /\ bucket_name = "None"
    /\ objects = <<>>
    /\ sres = "none"
    /\ nStaged = 0
    /\ ctor = NoCtorArgs
    /\ cached = EmptyDict
    /\ held = NoHeld
    /\ dkeys = NoKeys
    /\ dbucket = {}
    /\ dchunks = <<>>
    /\ dreq = <<>>
    /\ dpc = "idle"
    /\ derrors = <<>>

SpecBatch == InitBatch /\ [][NextBatch]_vars

\* the transformation functions applied to one record
Init ==
    /\ ENV = "unset"
    /\ store = "bundles"
    /\ lru = <<>>
    /\ okFetches = [n \in SecretNames |-> 0]
    /\ failFetches = [n \in SecretNames |-> 0]
    /\ lastRes = Res("none", NoArg, FALSE, "", NoConn)
    /\ nCalls = 0
    /\ hook = "ClevertapHook"
    /\ transport = "flaky"
    /\ rpc = "idle"
    /\ attempt_number = 0
    /\ outcome = "none"
    /\ delivered = NoDelivery
    /\ sleeps = <<>>
    /\ nDeliveries = 0
    /\ data = <<>>
    /\ bpc = "start"
    /\ bi = 1
    /\ chunk = <<>>
    /\ chunk_size = 0
    /\ gpos = 0
    /\ emitted = <<>>
    /\ tz \in {0, 19800}
    /\ op \in Configs
    /\ xin \in Records
    /\ xpc = "ready"
    /\ xcall = "none"
    /\ xret = NoRet
    /\ xarg = EmptyDict
    /\ TOTAL_RECORD_PROCESSED = 0
    /\ TOTAL_RECORD_SEND = 0
    /\ TOTAL_INVALID_RECORD = 0
    /\ pd_chunk = <<>>
    /\ payload = <<>>
    /\ nOps = 0
    /\ hcall = "none"
    /\ harg = <<>>
    /\ hres = Ok(PyNone)
    /\ hafter = EmptyDict
    /\ esrc = NoSource
    /\ epc = "init"
    /\ eitem = NoItem
    /\ eexc = "none"
    /\ chunk_completed = 0
    /\ uploads = <<>>
    /\ now = 0
    /\ count = 0
    /\ bucket_name = "None"
    /\ objects = <<>>
    /\ sres = "none"
    /\ nStaged = 0
    /\ ctor = NoCtorArgs
    /\ cached = EmptyDict
    /\ held = NoHeld
    /\ dkeys = NoKeys
    /\ dbucket = {}
    /\ dchunks = <<>>
    /\ dreq = <<>>
    /\ dpc = "idle"
    /\ derrors = <<>>

Spec == Init /\ [][NextTransform]_vars

\* one operator instance working through its record source
InitOperator ==
    /\ ENV = "unset"
    /\ store = "bundles"
    /\ lru = <<>>
    /\ okFetches = [n \in SecretNames |-> 0]
    /\ failFetches = [n \in SecretNames |-> 0]
    /\ lastRes = Res("none", NoArg, FALSE, "", NoConn)
    /\ nCalls = 0
    /\ hook = "ClevertapHook"
    /\ transport = "flaky"
    /\ rpc = "idle"
    /\ attempt_number = 0
    /\ outcome = "none"
    /\ delivered = NoDelivery
    /\ sleeps = <<>>
    /\ nDeliveries = 0
    /\ data = <<>>
    /\ bpc = "start"
    /\ bi = 1
    /\ chunk = <<>>
    /\ chunk_size = 0
    /\ gpos = 0
    /\ emitted = <<>>
    /\ tz = 0
    /\ op \in OperatorConfigs
    /\ xin = EmptyDict
    /\ xpc = "ready"
    /\ xcall = "none"
    /\ xret = NoRet
    /\ xarg = EmptyDict
    /\ TOTAL_RECORD_PROCESSED = 0
    /\ TOTAL_RECORD_SEND = 0
    /\ TOTAL_INVALID_RECORD = 0
    /\ pd_chunk = <<>>
    /\ payload = <<>>
    /\ nOps = 0
    /\ hcall = "none"
    /\ harg = <<>>
    /\ hres = Ok(PyNone)
    /\ hafter = EmptyDict
    /\ esrc = NoSource
    /\ epc = "init"
    /\ eitem = NoItem
    /\ eexc = "none"
    /\ chunk_completed = 0
    /\ uploads = <<>>
    /\ now = 0
    /\ count = 0
    /\ bucket_name = "None"
    /\ objects = <<>>
    /\ sres = "none"
    /\ nStaged = 0
    /\ ctor = NoCtorArgs
    /\ cached = EmptyDict
    /\ held = NoHeld
    /\ dkeys = NoKeys
    /\ dbucket = {}
    /\ dchunks = <<>>
    /\ dreq = <<>>
    /\ dpc = "idle"
    /\ derrors = <<>>

SpecOperator == InitOperator /\ [][NextOperator]_vars

\* the helpers of data_sanity_helpers, each called on its own
InitHelper ==
    /\ ENV = "unset"
    /\ store = "bundles"
    /\ lru = <<>>
    /\ okFetches = [n \in SecretNames |-> 0]
    /\ failFetches = [n \in SecretNames |-> 0]
    /\ lastRes = Res("none", NoArg, FALSE, "", NoConn)
    /\ nCalls = 0
    /\ hook = "ClevertapHook"
    /\ transport = "flaky"
    /\ rpc = "idle"
    /\ attempt_number = 0
    /\ outcome = "none"
    /\ delivered = NoDelivery
    /\ sleeps = <<>>
    /\ nDeliveries = 0
    /\ data = <<>>
    /\ bpc = "start"
    /\ bi = 1
    /\ chunk = <<>>
    /\ chunk_size = 0
    /\ gpos = 0
    /\ emitted = <<>>
    /\ tz = 0
    /\ op = Config(IdentityName("customer_id"), "None", <<>>, NoAttributes, <<>>)
    /\ xin = EmptyDict
    /\ xpc = "ready"
    /\ xcall = "none"
    /\ xret = NoRet
    /\ xarg = EmptyDict
    /\ TOTAL_RECORD_PROCESSED = 0
    /\ TOTAL_RECORD_SEND = 0
    /\ TOTAL_INVALID_RECORD = 0
    /\ pd_chunk = <<>>
    /\ payload = <<>>
    /\ nOps = 0
    /\ hcall = "none"
    /\ harg = <<>>
    /\ hres = Ok(PyNone)
    /\ hafter = EmptyDict
    /\ esrc = NoSource
    /\ epc = "init"
    /\ eitem = NoItem
    /\ eexc = "none"
    /\ chunk_completed = 0
    /\ uploads = <<>>
    /\ now = 0
    /\ count = 0
    /\ bucket_name = "None"
    /\ objects = <<>>
    /\ sres = "none"
    /\ nStaged = 0
    /\ ctor = NoCtorArgs
    /\ cached = EmptyDict
    /\ held = NoHeld
    /\ dkeys = NoKeys
    /\ dbucket = {}
    /\ dchunks = <<>>
    /\ dreq = <<>>
    /\ dpc = "idle"
    /\ derrors = <<>>

SpecHelper == InitHelper /\ [][NextHelper]_vars

\* one run of execute on an operator over each record source
InitExecute ==
    /\ ENV = "unset"
    /\ store = "bundles"
    /\ lru = <<>>
    /\ okFetches = [n \in SecretNames |-> 0]
    /\ failFetches = [n \in SecretNames |-> 0]
    /\ lastRes = Res("none", NoArg, FALSE, "", NoConn)
    /\ nCalls = 0
    /\ hook = "ClevertapHook"
    /\ transport = "flaky"
    /\ rpc = "idle"
    /\ attempt_number = 0
    /\ outcome = "none"
    /\ delivered = NoDelivery
    /\ sleeps = <<>>
    /\ nDeliveries = 0
    /\ data = <<>>
    /\ bpc = "start"
    /\ bi = 1
    /\ chunk = <<>>
    /\ chunk_size = 0
    /\ gpos = 0
    /\ emitted = <<>>
    /\ tz = 0
    /\ op = Config(IdentityName("customer_id"), "None", <<>>, NoAttributes, <<>>)
    /\ xin = EmptyDict
    /\ xpc = "ready"
    /\ xcall = "none"
    /\ xret = NoRet
    /\ xarg = EmptyDict
    /\ TOTAL_RECORD_PROCESSED = 0
    /\ TOTAL_RECORD_SEND = 0
    /\ TOTAL_INVALID_RECORD = 0
    /\ pd_chunk = <<>>
    /\ payload = <<>>
    /\ nOps = 0
    /\ hcall = "none"
    /\ harg = <<>>
    /\ hres = Ok(PyNone)
    /\ hafter = EmptyDict
    /\ esrc = NoSource
    /\ epc = "new"
    /\ eitem = NoItem
    /\ eexc = "none"
    /\ chunk_completed = 0
    /\ uploads = <<>>
    /\ now = 0
    /\ count = 0
    /\ bucket_name = "None"
    /\ objects = <<>>
    /\ sres = "none"
    /\ nStaged = 0
    /\ ctor \in CtorArgs
    /\ cached = EmptyDict
    /\ held = NoHeld
    /\ dkeys = NoKeys
    /\ dbucket = {}
    /\ dchunks = <<>>
    /\ dreq = <<>>
    /\ dpc = "idle"
    /\ derrors = <<>>

SpecExecute == InitExecute /\ [][NextExecute]_vars

\* a process that stages batches through NetcoreHook
InitStage ==
    /\ ENV = "unset"
    /\ store = "bundles"
    /\ lru = <<>>
    /\ okFetches = [n \in SecretNames |-> 0]
    /\ failFetches = [n \in SecretNames |-> 0]
    /\ lastRes = Res("none", NoArg, FALSE, "", NoConn)
    /\ nCalls = 0
    /\ hook = "ClevertapHook"
    /\ transport = "flaky"
    /\ rpc = "idle"
    /\ attempt_number = 0
    /\ outcome = "none"
    /\ delivered = NoDelivery
    /\ sleeps = <<>>
    /\ nDeliveries = 0
    /\ data = <<>>
    /\ bpc = "start"
    /\ bi = 1
    /\ chunk = <<>>
    /\ chunk_size = 0
    /\ gpos = 0
    /\ emitted = <<>>
    /\ tz = 0
    /\ op = Config(IdentityName("customer_id"), "None", <<>>, NoAttributes, <<>>)
    /\ xin = EmptyDict
    /\ xpc = "ready"
    /\ xcall = "none"
    /\ xret = NoRet
    /\ xarg = EmptyDict
    /\ TOTAL_RECORD_PROCESSED = 0
    /\ TOTAL_RECORD_SEND = 0
    /\ TOTAL_INVALID_RECORD = 0
    /\ pd_chunk = <<>>
    /\ payload = <<>>
    /\ nOps = 0
    /\ hcall = "none"
    /\ harg = <<>>
    /\ hres = Ok(PyNone)
    /\ hafter = EmptyDict
    /\ esrc = NoSource
    /\ epc = "init"
    /\ eitem = NoItem
    /\ eexc = "none"
    /\ chunk_completed = 0
    /\ uploads = <<>>
    /\ now = 0
    /\ count = 0
    /\ bucket_name = "None"
    /\ objects = <<>>
    /\ sres = "none"
    /\ nStaged = 0
    /\ ctor = NoCtorArgs
    /\ cached = EmptyDict
    /\ held = NoHeld
    /\ dkeys = NoKeys
    /\ dbucket = {}
    /\ dchunks = <<>>
    /\ dreq = <<>>
    /\ dpc = "idle"
    /\ derrors = <<>>

SpecStage == InitStage /\ [][NextStage]_vars

\* deleting objects
InitDelete ==
    /\ ENV = "unset"
    /\ store = "bundles"
    /\ lru = <<>>
    /\ okFetches = [n \in SecretNames |-> 0]
    /\ failFetches = [n \in SecretNames |-> 0]
    /\ lastRes = Res("none", NoArg, FALSE, "", NoConn)
    /\ nCalls = 0
    /\ hook = "ClevertapHook"
    /\ transport = "flaky"
    /\ rpc = "idle"
    /\ attempt_number = 0
    /\ outcome = "none"
    /\ delivered = NoDelivery
    /\ sleeps = <<>>
    /\ nDeliveries = 0
    /\ data = <<>>
    /\ bpc = "start"
    /\ bi = 1
    /\ chunk = <<>>
    /\ chunk_size = 0
    /\ gpos = 0
    /\ emitted = <<>>
    /\ tz = 0
    /\ op = Config(IdentityName("customer_id"), "None", <<>>, NoAttributes, <<>>)
    /\ xin = EmptyDict
    /\ xpc = "ready"
    /\ xcall = "none"
    /\ xret = NoRet
    /\ xarg = EmptyDict
    /\ TOTAL_RECORD_PROCESSED = 0
    /\ TOTAL_RECORD_SEND = 0
    /\ TOTAL_INVALID_RECORD = 0
    /\ pd_chunk = <<>>
    /\ payload = <<>>
    /\ nOps = 0
    /\ hcall = "none"
    /\ harg = <<>>
    /\ hres = Ok(PyNone)
    /\ hafter = EmptyDict
    /\ esrc = NoSource
    /\ epc = "init"
    /\ eitem = NoItem
    /\ eexc = "none"
    /\ chunk_completed = 0
    /\ uploads = <<>>
    /\ now = 0
    /\ count = 0
    /\ bucket_name = "None"
    /\ objects = <<>>
    /\ sres = "none"
    /\ nStaged = 0
    /\ ctor = NoCtorArgs
    /\ cached = EmptyDict
    /\ held = NoHeld
    /\ dkeys \in KeysArgs
    /\ dbucket \in {AllKeys, {}}
    /\ dchunks = <<>>
    /\ dreq = <<>>
    /\ dpc = "idle"
    /\ derrors = <<>>

SpecDelete == InitDelete /\ [][NextDelete]_vars

(***************************************************************************)
(* Claims                                                                  *)
(***************************************************************************)

\* C1 (as claimed): over any sequence of resolutions, the secrets store hands
\* out the bundle of each secret name at most once; every later resolution of
\* that name is a cache hit.
C1_FetchedOncePerName == \A n \in SecretNames : okFetches[n] <= 1

\* C2: with the default policy and a transport that always fails with a
\* transient connection error, a delivery call never returns a response, and
\* it ends after exactly 3 attempts (2 waits) with the connection error
\* surfaced to the caller.
C2_TransientExhaustsThree ==
    transport = "always_transient" =>
        /\ delivered.kind # "response"
        /\ attempt_number <= 3
        /\ rpc = "done" =>
              /\ attempt_number = 3
              /\ Len(sleeps) = 2
              /\ delivered = [kind |-> "error", exc |-> "ConnectionError"]

C2_Witness ==
    /\ transport = "always_transient"
    /\ rpc = "done"
    /\ attempt_number = 3
    /\ delivered.kind = "error"

\* C3 (as claimed): with the default policy, a delivery call that fails with
\* an error that is no transient connection failure ends after exactly one
\* attempt, without any wait, with the error surfaced.
C3_FatalAttemptedOnce ==
    (transport = "always_fatal" /\ rpc = "done") =>
        /\ attempt_number = 1
        /\ sleeps = <<>>
        /\ delivered = [kind |-> "error", exc |-> "InvalidRequest"]

RECURSIVE Flatten(_)
Flatten(batches) == IF batches = <<>> THEN <<>> ELSE Head(batches) \o Flatten(Tail(batches))
RECURSIVE SumLen(_)
SumLen(batches) == IF batches = <<>> THEN 0 ELSE Len(Head(batches)) + SumLen(Tail(batches))

\* C4: the batches emitted so far, concatenated in emission order, are a
\* prefix of the input list, and once the generator is exhausted they are the
\* input list exactly, so the batch lengths add up to the record count.
C4_StablePartition ==
    /\ Len(Flatten(emitted)) <= Len(data)
    /\ Flatten(emitted) = SubSeq(data, 1, Len(Flatten(emitted)))
    /\ bpc = "done" => (Flatten(emitted) = data /\ SumLen(emitted) = Len(data))

C4_Witness ==
    /\ bpc = "done"
    /\ Len(data) >= 3
    /\ Len(emitted) >= 2
    /\ Len(emitted[Len(emitted)]) < Len(emitted[1])

\* C5 (as claimed): every emitted batch that holds more than one record has
\* serialized size at most the ceiling, whatever the sizes of the records.
C5_MultiRecordBatchesFit ==
    \A k \in 1..Len(emitted) :
        Len(emitted[k]) > 1 => df_file_size(emitted[k]) <= SizeCeiling

UniformSizes(rows) == \A j, k \in 1..Len(rows) : rows[j].sz = rows[k].sz

\* C5 (amended): the first emitted batch, which is the chunk the search
\* measured, has serialized size at most the ceiling; and when all records
\* have the same serialized size, every emitted batch does.
C5_MeasuredBatchFits ==
    /\ emitted # <<>> => df_file_size(emitted[1]) <= SizeCeiling
    /\ UniformSizes(data) =>
          \A k \in 1..Len(emitted) : df_file_size(emitted[k]) <= SizeCeiling

C5_Witness ==
    /\ bpc = "done"
    /\ bi >= 2
    /\ Len(emitted) >= 2
    /\ Len(emitted[1]) > 1
    /\ df_file_size(data) > SizeCeiling
    /\ df_file_size(emitted[1]) <= SizeCeiling

\* C6 (as claimed): the batch-size search never fails with an error, and a
\* record list of one record is yielded as the single batch.
C6_SearchYieldsBatches ==
    /\ bpc # "ValueError"
    /\ (bpc = "done" /\ Len(data) = 1) => emitted = <<data>>

IdentityNames == {op.identity.names[k] : k \in 1..Len(op.identity.names)}
IsEnvelopeOfTransform == xcall = "transform_payload" /\ xret.kind = "envelope"

\* C7: the steps of transform_payload run in the order identity, custom
\* transform, coercion, projection, renaming, wrapping.  So (a) the
\* envelope's identity is a value of the incoming record, untouched by a
\* transform that rewrites the identity field or a coercion that retypes it;
\* (b) a field the custom transform adds is coerced by the type map; (c) a
\* renamed field carries the value coerced under its old name, and the type
\* map entry for its new name is not applied; (d) the allow-list keeps a
\* field by its old name and drops it when only its new name is listed.
C7_StepOrder ==
    IsEnvelopeOfTransform =>
        /\ \E k \in IdentityNames \cap DOMAIN xin : xret.identity = xin[k]
        /\ (op.transformation_fn = "caller_fn" /\ ~op.attributes.set /\ op.swap_key_map = <<>>) =>
              /\ Get(xret.profileData, "customer_id") = PyStrV(T_u9)
              /\ Get(xret.profileData, "y") = PyIntV(FALSE, T_5)
        /\ (op.transformation_fn = "None" /\ op.swap_key_map = <<<<"x", "y">>>>
               /\ "x" \in DOMAIN xin /\ op.data_type_map = <<<<"x", "string">>, <<"y", "int">>>>) =>
              IF op.attributes.set /\ op.attributes.names = <<"y">>
              THEN xret.profileData = EmptyDict
              ELSE /\ "x" \notin DOMAIN xret.profileData
                   /\ Get(xret.profileData, "y") = PyStrV(PyStr(xin["x"]))
        /\ (op.data_type_map = <<<<"customer_id", "string">>>> /\ xret.identity = Int7) =>
              Get(xret.profileData, "customer_id") = PyStrV(<<"7">>)

C7_Witness ==
    /\ IsEnvelopeOfTransform
    /\ op.transformation_fn = "None"
    /\ op.swap_key_map = <<<<"x", "y">>>>
    /\ op.attributes.set /\ op.attributes.names = <<"x">>
    /\ "x" \in DOMAIN xin /\ xin["x"] = PyStrV(T_12)
    /\ xret.profileData = [k \in {"y"} |-> PyStrV(T_12)]

NoIdentityField(rec) == IdentityNames \cap DOMAIN rec = {}
RECURSIVE CountNoIdentity(_)
CountNoIdentity(rows) ==
    IF rows = <<>> THEN 0
    ELSE (IF NoIdentityField(Head(rows)) THEN 1 ELSE 0) + CountNoIdentity(Tail(rows))

\* C8: a call of transform_payload on a record with none of the identity
\* fields returns None without raising, adds exactly 1 to the invalid-record
\* counter and leaves the processed-record counter alone; and in a payload
\* that payload_generator yields, every such record of the chunk is counted
\* invalid and left out: the payload holds no more entries than the chunk has
\* records with an identity field, each entry carrying such a record's identity.
C8_MissingIdentityDropped ==
    [][/\ (xcall' = "transform_payload" /\ nOps' = nOps + 1 /\ NoIdentityField(xin')) =>
             /\ xret'.kind = "None"
             /\ TOTAL_INVALID_RECORD' = TOTAL_INVALID_RECORD + 1
             /\ TOTAL_RECORD_PROCESSED' = TOTAL_RECORD_PROCESSED
             /\ TOTAL_RECORD_SEND' = TOTAL_RECORD_SEND
       /\ (xcall' = "payload_generator" /\ nOps' = nOps + 1 /\ xret'.kind = "payload") =>
             /\ TOTAL_INVALID_RECORD' >= TOTAL_INVALID_RECORD + CountNoIdentity(pd_chunk')
             /\ Len(payload') <= Len(pd_chunk') - CountNoIdentity(pd_chunk')
             /\ TOTAL_RECORD_PROCESSED' = TOTAL_RECORD_PROCESSED + Len(pd_chunk')
             /\ \A j \in 1..Len(payload') :
                   \E i \in 1..Len(pd_chunk') :
                      \E k \in IdentityNames \cap DOMAIN pd_chunk'[i] :
                         payload'[j].identity = pd_chunk'[i][k]
      ]_vars

C8_Witness ==
    /\ xcall = "transform_payload"
    /\ NoIdentityField(xin)
    /\ xin # EmptyDict
    /\ xret.kind = "None"
    /\ TOTAL_RECORD_PROCESSED = 2
    /\ TOTAL_INVALID_RECORD = 2

IntOrFloatParseFails(v) ==
    v.t = "str" /\ (IF op.data_type_map[1][2] = "int" THEN ~IntLiteral(v.s).ok
                    ELSE ~FloatLiteral(v.s).ok)

\* C9 (as claimed): data_type_transformation returns without raising for every
\* record of Record scalars and every type map, and a field whose int or
\* float parse fails keeps its value.
C9_CoercionNeverFatal ==
    xcall = "data_type_transformation" =>
        /\ xret.kind = "dict"
        /\ (Len(op.data_type_map) = 1 /\ op.data_type_map[1][1] = "x"
               /\ op.data_type_map[1][2] \in {"int", "float"}
               /\ "x" \in DOMAIN xin /\ IntOrFloatParseFails(xin["x"])) =>
              xret.profileData["x"] = xin["x"]

\* C10 (as claimed): a field typed Unix_epoch whose value does not parse as
\* YYYY-MM-DD keeps its value and nothing is raised; a value that parses
\* becomes "$D_" followed by the Unix seconds of the date.
C10_EpochUnparseableKept ==
    (xcall = "data_type_transformation" /\ op.data_type_map = <<<<"x", "Unix_epoch">>>>
        /\ "x" \in DOMAIN xin) =>
        IF xin["x"].t = "str" /\ StrpDate(xin["x"].s).ok
        THEN /\ xret.kind = "dict"
             /\ SubSeq(xret.profileData["x"].s, 1, 3) = <<"$", "D", "_">>
        ELSE /\ xret.kind = "dict"
             /\ xret.profileData["x"] = xin["x"]

EndsWithBlankBC(s) == Len(s) >= 3 /\ SubSeq(s, Len(s) - 2, Len(s)) = <<" ", "B", "C">>
\* the text without its trailing BC marker: the marker read as "BC" with the
\* blank before it when there is one, or read as " BC" only
WithoutBC(s) ==
    IF EndsWithBlankBC(s) THEN SubSeq(s, 1, Len(s) - 3)
    ELSE IF EndsWithBC(s) THEN SubSeq(s, 1, Len(s) - 2) ELSE s
WithoutBlankBC(s) == IF EndsWithBlankBC(s) THEN SubSeq(s, 1, Len(s) - 3) ELSE s
MatchedFormat(s) ==
    IF StrpDateTime(s, FALSE).ok THEN StrpDateTime(s, FALSE)
    ELSE IF StrpDate(s).ok THEN StrpDate(s) ELSE StrpDateTime(s, TRUE)
ClaimedDobOf(r) ==
    IF r.ok THEN PyStrV(DateStr((IF r.y < 1900 THEN 1952 ELSE r.y) * 10000 + r.m * 100 + r.d))
    ELSE PyNone
ClaimedDob(s) == ClaimedDobOf(MatchedFormat(s))

\* C11 (as claimed): fix_dob raises nothing; a value that, without its trailing
\* BC marker, matches one of the three formats yields that date as YYYY-MM-DD,
\* the year replaced by 1952 when it is before 1900 and month and day kept;
\* any other value yields None; no output has a year before 1900.
C11_FixDobDateOrNull ==
    hcall = "fix_dob" =>
        /\ hres.exc = "none"
        /\ hres.v \in {ClaimedDob(WithoutBC(PyStr(harg[1]))),
                       ClaimedDob(WithoutBlankBC(PyStr(harg[1])))}
        /\ hres.v # PyNone => NatOf(SubSeq(hres.v.s, 1, 4)) >= 1900

\* the integer rendering of a value int() accepts, <<>> for every other value
IntRendering(i) == IF i.exc = "none" THEN PyStr(i.v) ELSE <<>>
ClaimedMobile(text) ==
    IF Len(text) >= 10 THEN PyStrV(SubSeq(text, Len(text) - 9, Len(text))) ELSE PyNone

\* C12 (as claimed): for every mobile value mobile_sanity returns None or a
\* string of exactly 10 characters: the last 10 characters of the integer
\* rendering when the value converts to an integer whose rendering has at
\* least 10 characters, None for a shorter, null or non-integer value.
C12_MobileTenOrNull ==
    hcall = "mobile_sanity" =>
        /\ hres.exc = "none"
        /\ hres.v = IF harg[1] = PyNone THEN PyNone
                    ELSE ClaimedMobile(IntRendering(PyInt(harg[1])))

\* value * 100 truncated toward zero, for the decimal value a number denotes
ClaimedReward(v) ==
    IF v.t = "int" THEN ScaledDigits(v.neg, StripZeros(v.s \o <<"0", "0">>))
    ELSE IF v.t = "float" THEN ScaledDigits(v.neg, StripZeros(v.s \o Pad2(v.n \div 100)))
    ELSE PyNone

\* C13 (as claimed): modify_reward raises nothing; a numeric reward yields the
\* value multiplied by 100 and truncated toward zero to an integer; every
\* non-numeric input (None, text, text made of digits included) yields None.
C13_RewardScaledOrNull ==
    hcall = "modify_reward" => hres = Ok(ClaimedReward(harg[1]))

OldNames(swap_map) == {swap_map[j][1] : j \in 1..Len(swap_map)}
NewNames(swap_map) == {swap_map[j][2] : j \in 1..Len(swap_map)}
RenamedTo(d, r, old, new) ==
    old \in DOMAIN d => old \notin DOMAIN r /\ new \in DOMAIN r /\ r[new] = d[old]
KeepsUnnamed(d, r, named) == \A k \in DOMAIN d \ named : k \in DOMAIN r /\ r[k] = d[k]

\* C14 (as claimed): after swap_key_name every pair (old, new) whose old key was
\* present in the record leaves old absent and new holding old's value, and
\* every field the map does not name keeps its key and value.
C14_RenamePostcondition ==
    hcall = "swap_key_name" =>
        /\ \A j \in 1..Len(harg[2]) : RenamedTo(harg[1], hres.v, harg[2][j][1], harg[2][j][2])
        /\ KeepsUnnamed(harg[1], hres.v, OldNames(harg[2]) \cup NewNames(harg[2]))

AllowListed == {op.attributes.names[j] : j \in 1..Len(op.attributes.names)}
\* a call of transform_payload that reached the envelope with no custom
\* transform and no renaming, so that profileData is the projection's output
IsProjectionOfTransform ==
    IsEnvelopeOfTransform /\ op.transformation_fn = "None" /\ op.swap_key_map = <<>>
SameValues(pd, d) == \A k \in DOMAIN pd : pd[k] = d[k]

\* C15: with an allow-list set, the projected record's keys are exactly the
\* allow-listed names present in the record, each with the value it had going
\* into the projection (the coerced value), every other field dropped and
\* nothing raised; with no allow-list the record passes through with all its
\* fields.
C15_AllowListProjection ==
    IsProjectionOfTransform =>
        /\ DOMAIN xret.profileData =
               IF op.attributes.set THEN AllowListed \cap DOMAIN xin ELSE DOMAIN xin
        /\ SameValues(xret.profileData, data_type_transformation(xin, op.data_type_map).data)

C15_Witness ==
    /\ IsProjectionOfTransform
    /\ op.attributes.set /\ op.attributes.names = <<"x">>
    /\ DOMAIN xin = {"customer_id", "email", "x", "dob"}
    /\ xret.profileData = [k \in {"x"} |-> PyStrV(PyStr(xin["x"]))]

\* a listed field the record holds with a value Python takes as true
Usable(d, n) == n \in DOMAIN d /\ Truthy(d[n])
IsFirst(P(_), names, j) == P(names[j]) /\ \A i \in 1..(j - 1) : ~P(names[i])
FirstValue(P(_), d, names, v) ==
    IF \E j \in 1..Len(names) : P(names[j])
    THEN \E j \in 1..Len(names) : IsFirst(P, names, j) /\ v = d[names[j]]
    ELSE v = PyNone

\* C16 (as claimed): identity_field_check returns the value of the first
\* listed field that is present in the record, and None only when none of the
\* listed fields is present.
C16_FirstPresentField ==
    hcall = "identity_field_check" =>
        /\ hres.exc = "none"
        /\ LET Present(n) == n \in DOMAIN harg[1]
           IN  /\ FirstValue(Present, harg[1], harg[2].names, hres.v)
               /\ hres.v = PyNone => \A j \in 1..Len(harg[2].names) : ~Present(harg[2].names[j])

\* C16 (amended): identity_field_check returns the value of the first listed
\* field whose value in the record is true for Python (not None, not 0, not
\* empty text); a field that is absent or holds such a value is passed over,
\* and the result is None exactly when no listed field holds a true value.
C16_FirstUsableField ==
    hcall = "identity_field_check" =>
        /\ hres.exc = "none"
        /\ LET Holds(n) == Usable(harg[1], n)
           IN  /\ FirstValue(Holds, harg[1], harg[2].names, hres.v)
               /\ hres.v = PyNone <=> \A j \in 1..Len(harg[2].names) : ~Holds(harg[2].names[j])

C16_Witness ==
    /\ hcall = "identity_field_check"
    /\ harg[2].names = <<"customer_id", "email">>
    /\ harg[1] = [k \in {"customer_id", "email"} |-> IF k = "email" THEN PyStrV(T_ab) ELSE Int0]
    /\ hres = Ok(PyStrV(T_ab))

\* the id asked for is in the bundle the resolution read
IdInBundle == store = "bundles" /\ lastRes.conn_id \in DOMAIN SecretBundle(lastRes.name)

\* C17: a call of get_connection whose id is absent from the resolved bundle,
\* or whose bundle is empty or null, raises the not-found error whose message
\* names the id and hands back no Connection; a call whose id is present
\* returns the Connection built from that id's fields in the bundle.
C17_AbsentIdNotFound ==
    lastRes.conn_id # "" =>
        IF IdInBundle
        THEN /\ lastRes.kind = "Connection"
             /\ lastRes.conn = SecretBundle(lastRes.name)[lastRes.conn_id]
        ELSE /\ lastRes.kind = "NotFound"
             /\ lastRes.msg = <<"Connection Not found : ", lastRes.conn_id>>
             /\ lastRes.conn = NoConn

C17_Witness ==
    /\ store = "bundles"
    /\ lastRes.conn_id = "netcore"
    /\ lastRes.name = "martech_dev"
    /\ lastRes.kind = "NotFound"

\* C18 (as claimed): after transform_payload, data_type_transformation or
\* swap_key_name returns (or raises), the mapping the caller passed in has
\* the keys and values it had before the call.
C18_CallerRecordUnchanged ==
    /\ (xpc = "done" /\ xcall \in {"transform_payload", "data_type_transformation"}) =>
           xarg = xin
    /\ hcall = "swap_key_name" => hafter = harg[1]

\* the record source holds at least one batch of rows that can be read
HasBatch(src) == src.rows >= src.payload_size /\ (src.df \/ src.key)
ExecuteEnded == epc \in {"returned", "raised"}

StagedFor(batch) == {k \in DOMAIN objects : objects[k] = batch}

\* C20 (as claimed): staging is idempotent-safe: re-running
\* upload_user_profiles for a batch overwrites the object staged for it
\* before, so the store never holds more than one object for a batch.
C20_OneObjectPerBatch == \A batch \in Batches : Cardinality(StagedFor(batch)) <= 1

\* a record source is supplied: an inline dataframe, or a bucket and a key
SourceSupplied(a) == a.df # "None" \/ (a.s3_bucket /\ a.s3_key)
Constructed == epc \in {"unbuilt", "init"}

\* C21 (as claimed): constructing the operator succeeds whenever a record
\* source is supplied, and fails, with 'data for payload not passed', only
\* when neither an inline dataframe nor a bucket and key is supplied.
C21_ConstructsWithSource ==
    Constructed =>
        IF SourceSupplied(ctor) THEN epc = "init" /\ eexc = "none"
        ELSE epc = "unbuilt" /\ eexc = "data for payload not passed"

\* the chunks of at most p rows that n rows make
ChunkCount(n, p) == (n + p - 1) \div p

\* C22 (as claimed): over a source of n records with payload_size p,
\* payload_generator yields one payload per chunk, each of at most p
\* entries, and execute makes one upload call per payload.  So a run of
\* execute in which no delivery failed returns, having handed
\* upload_user_profiles one payload per chunk, none longer than p.
C22_OneUploadPerChunk ==
    (ExecuteEnded /\ eexc \notin DeliveryOutcomes) =>
        /\ epc = "returned"
        /\ Len(uploads) = ChunkCount(esrc.rows, esrc.payload_size)
        /\ \A i \in 1..Len(uploads) : uploads[i].len <= esrc.payload_size

\* C23: the bundle a cache entry holds stays as the secrets store handed it
\* out: no resolution by a hook (GamoogaHook clearing login and password on
\* its Connection, NetcoreHook resetting extra, AwsBaseHook reading the
\* credentials) changes it, and every resolution of a connection id returns
\* the host, login, password and extra of that bundle, whatever hooks
\* resolved the id before.
C23_CachedBundleUnmodified ==
    /\ \A i \in 1..Len(lru) :
          /\ lru[i].key \in DOMAIN cached
          /\ cached[lru[i].key] = get_secret_as_dict(lru[i].name)
    /\ lastRes.kind = "Connection" =>
          lastRes.conn = SecretBundle(lastRes.name)[lastRes.conn_id]

\* a Gamooga hook cleared login and password on its Connection for clevertap,
\* and a later resolution of clevertap, served from the cache, returned them
C23_Witness ==
    /\ held.by = "GamoogaHook"
    /\ held.conn_id = "clevertap"
    /\ held.conn.login = "None"
    /\ nCalls > held.at
    /\ lastRes.kind = "Connection"
    /\ lastRes.hit
    /\ lastRes.conn_id = "clevertap"
    /\ lastRes.conn.login # "None"

\* what the caller asked to delete, as a list
Requested == IF dkeys.kind = "str" THEN <<dkeys.key>> ELSE dkeys.items
IsPrefixOf(p, s) == Len(p) <= Len(s) /\ p = SubSeq(s, 1, Len(p))
ErrorsReported == derrors # <<>>

PayloadYielded == xcall' = "payload_generator" /\ nOps' = nOps + 1 /\ xret'.kind = "payload"
Unaccounted == TOTAL_RECORD_PROCESSED - TOTAL_RECORD_SEND - TOTAL_INVALID_RECORD

====
